---- MODULE Spec2Model ----
(***************************************************************************)
(* A model of libsbn's subsplit Bayesian network support: the Node         *)
(* topology type (node.cpp), the rootsplit / PCSS counters (build.cpp) and *)
(* the SBNInstance state machine (libsbn.cpp).                             *)
(*                                                                         *)
(* Bitsets are sequences over {0, 1}, bit 0 first, as Bitset::ToString     *)
(* prints them.  A Node is a record [children, index, tag] with            *)
(* tag = <<max leaf id, leaf count>>.  An unordered_map is a function; its *)
(* iteration order, which C++ leaves unspecified but which is fixed for a  *)
(* given content, is taken to be the lexicographic order of the keys.      *)
(***************************************************************************)
EXTENDS Integers, Sequences, FiniteSets, TLC

(*************************** bounds ***************************************)
\* Number of taxa of the trees of the build specification.
NumTaxa == 5
\* Largest number of trees in a tree collection of the build specification.
MaxTrees == 2
\* Number of taxa of the trees of the reload specification.
NumFileTaxa == 4
\* Largest number of trees in a file, and in a sample, of the reload
\* specification.
MaxFileTrees == 2

\* Largest max_iter of a run of expectation-maximization.
MaxIter == 3
\* Largest score an iteration of expectation-maximization reports.
MaxScore == 1

\* Number of leaves the node specification starts from.
NumNodeLeaves == 3
\* Largest number of nodes the node specification builds.
MaxNodes == 6

Taxa == 0 .. (NumTaxa - 1)
FileTaxa == 0 .. (NumFileTaxa - 1)

(*************************** Bitset ***************************************)
\* The sequence f as a tuple whose elements are evaluated once.
Tup(f) == SubSeq(f, 1, Len(f))

\* Bitset(n): n bits, all false.
ZeroBitset(n) == Tup([i \in 1 .. n |-> 0])

\* Bitset::operator~ / flip.
Flip(b) == Tup([i \in 1 .. Len(b) |-> 1 - b[i]])

\* Bitset::operator|.
BitOr(a, b) ==
  Tup([i \in 1 .. Len(a) |-> IF a[i] = 1 \/ b[i] = 1 THEN 1 ELSE 0])

\* Bitset::operator&.
BitAnd(a, b) ==
  Tup([i \in 1 .. Len(a) |-> IF a[i] = 1 /\ b[i] = 1 THEN 1 ELSE 0])

\* Bitset::set(i) for the 0-based position i.
SetBit(b, i) == Tup([j \in 1 .. Len(b) |-> IF j = i + 1 THEN 1 ELSE b[j]])

\* Bitset::operator<: std::vector<bool> compares lexicographically, false < true.
RECURSIVE BitLess(_, _)
BitLess(a, b) ==
  IF a = <<>> THEN b # <<>>
  ELSE IF b = <<>> THEN FALSE
  ELSE IF Head(a) # Head(b) THEN Head(a) < Head(b)
  ELSE BitLess(Tail(a), Tail(b))

\* std::min(a, b): b only when b < a.
BitMin(a, b) == IF BitLess(b, a) THEN b ELSE a

\* Bitset::Minorize: flip the bitset when its bit 0 is set.
Minorize(b) == IF b[1] = 1 THEN Flip(b) ELSE b

\* Bitset::CopyFrom(other, begin, flip): write other (flipped or not) into
\* this bitset from position begin on.
CopyFrom(target, other, begin, flip) ==
  Tup([i \in 1 .. Len(target) |->
         IF i > begin /\ i <= begin + Len(other)
         THEN (IF flip THEN 1 - other[i - begin] ELSE other[i - begin])
         ELSE target[i]])

\* Bitset::SplitChunk(i) of a subsplit (two chunks of equal length).
SplitChunk(b, i) ==
  LET n == Len(b) \div 2 IN SubSeq(b, i * n + 1, (i + 1) * n)

\* Bitset::RotateSubsplit: exchange the two chunks.
RotateSubsplit(b) == SplitChunk(b, 1) \o SplitChunk(b, 0)

\* Bitset::ChildSubsplit(parent, child_half): the part of the parent's
\* focal chunk outside child_half, then child_half.
ChildSubsplit(parent, child) ==
  BitAnd(SplitChunk(parent, 1), Flip(child)) \o child

\* Number of set bits.
RECURSIVE Count(_)
Count(b) == IF b = <<>> THEN 0 ELSE Head(b) + Count(Tail(b))

\* The taxa of a clade bitset.
BitsOf(b) == {i \in 0 .. (Len(b) - 1) : b[i + 1] = 1}

\* The clade bitset of a set of taxa, n bits wide.
BitsetOf(S, n) == Tup([i \in 1 .. n |-> IF (i - 1) \in S THEN 1 ELSE 0])

\* The keys of a set of bitsets in iteration order.
RECURSIVE IterationOrder(_)
IterationOrder(S) ==
  IF S = {} THEN <<>>
  ELSE LET m == CHOOSE x \in S : \A y \in S : ~BitLess(y, x)
       IN <<m>> \o IterationOrder(S \ {m})

(*************************** Node *****************************************)
MaxLeafID(n) == n.tag[1]
LeafCount(n) == n.tag[2]
IsLeaf(n) == n.children = <<>>

\* The index of a node made without one (the default argument of Join).
NoIndex == 0 - 1

\* Node::Node(uint32_t leaf_id).
Leaf(id) == [children |-> <<>>, index |-> id, tag |-> <<id, 1>>]

\* What stands for a call that threw instead of returning a topology.
Thrown == [children |-> <<>>, index |-> NoIndex, tag |-> <<NoIndex, 0>>]

\* The distinct values of a sequence.
Range(f) == {f[i] : i \in DOMAIN f}

\* A constructor that keeps its children in the order given.
KeepOrder(cs) == cs

\* The order the constructor's std::sort gives: by increasing max leaf id.
RECURSIVE SortByMaxLeafID(_)
SortByMaxLeafID(cs) ==
  IF cs = <<>> THEN <<>>
  ELSE LET k == CHOOSE i \in 1 .. Len(cs) :
                  \A j \in 1 .. Len(cs) : MaxLeafID(cs[i]) <= MaxLeafID(cs[j])
           rest == [i \in 1 .. (Len(cs) - 1) |-> IF i < k THEN cs[i] ELSE cs[i + 1]]
       IN <<cs[k]>> \o SortByMaxLeafID(rest)

\* A constructor that aborts on an empty child list only.
JoinAbortsOnEmpty(cs) == cs = <<>>

\* The constructor aborts: no children, or two children with one max leaf id.
JoinAborts(cs) ==
  \/ cs = <<>>
  \/ \E i, j \in 1 .. Len(cs) : i # j /\ MaxLeafID(cs[i]) = MaxLeafID(cs[j])

RECURSIVE SumLeafCount(_)
SumLeafCount(cs) ==
  IF cs = <<>> THEN 0 ELSE LeafCount(Head(cs)) + SumLeafCount(Tail(cs))

\* Node::Node(NodePtrVec children, size_t index), when it does not abort.
NodeOf(cs, index) ==
  LET sorted == SortByMaxLeafID(cs)
  IN [children |-> sorted, index |-> index,
      tag |-> <<MaxLeafID(sorted[Len(sorted)]), SumLeafCount(sorted)>>]

\* Node::Join(children, index = SIZE_MAX).
Join(cs) == NodeOf(cs, NoIndex)

\* Node::operator==: the hash is a function of the leaf ids below the node,
\* so it never differs where the children agree; the indices are not compared.
RECURSIVE NodeEq(_, _)
NodeEq(a, b) ==
  /\ Len(a.children) = Len(b.children)
  /\ (IsLeaf(a) => a.tag = b.tag)
  /\ \A i \in 1 .. Len(a.children) : NodeEq(a.children[i], b.children[i])

\* Node::PreOrder: the nodes in the order f is called on them.
RECURSIVE PreOrder(_)
RECURSIVE PreOrderAll(_)
PreOrder(n) == <<n>> \o PreOrderAll(n.children)
PreOrderAll(cs) ==
  IF cs = <<>> THEN <<>> ELSE PreOrder(Head(cs)) \o PreOrderAll(Tail(cs))

\* Node::PostOrder.
RECURSIVE PostOrder(_)
RECURSIVE PostOrderAll(_)
PostOrder(n) == PostOrderAll(n.children) \o <<n>>
PostOrderAll(cs) ==
  IF cs = <<>> THEN <<>> ELSE PostOrder(Head(cs)) \o PostOrderAll(Tail(cs))

\* A LevelOrder that goes through the children of a node before it goes
\* on to the node's siblings.
LevelOrderDepthFirst(n) == PreOrder(n)

\* Node::LevelOrder: the nodes in the order f is called on them; to_visit
\* is the deque, the front node is visited and its children are pushed at
\* the back.
RECURSIVE LevelOrderFrom(_)
LevelOrderFrom(to_visit) ==
  IF to_visit = <<>> THEN <<>>
  ELSE <<Head(to_visit)>>
       \o LevelOrderFrom(Tail(to_visit) \o Head(to_visit).children)
LevelOrder(n) == LevelOrderFrom(<<n>>)

\* A Reindex that numbers an internal node before the nodes below it.
RECURSIVE ReindexPreOrderFrom(_, _)
RECURSIVE ReindexPreOrderAll(_, _)
ReindexPreOrderFrom(n, next) ==
  IF IsLeaf(n) THEN [node |-> [n EXCEPT !.index = MaxLeafID(n)], next |-> next]
  ELSE LET r == ReindexPreOrderAll(n.children, next + 1)
       IN [node |-> [n EXCEPT !.children = r.nodes, !.index = next],
           next |-> r.next]
ReindexPreOrderAll(cs, next) ==
  IF cs = <<>> THEN [nodes |-> <<>>, next |-> next]
  ELSE LET h == ReindexPreOrderFrom(Head(cs), next)
           t == ReindexPreOrderAll(Tail(cs), h.next)
       IN [nodes |-> <<h.node>> \o t.nodes, next |-> t.next]

\* Node::Reindex: leaves keep their id, the others are numbered in
\* post-order from 1 + MaxLeafID.  ReindexFrom returns the renumbered node
\* and the next free index.
RECURSIVE ReindexFrom(_, _)
RECURSIVE ReindexAll(_, _)
ReindexFrom(n, next) ==
  IF IsLeaf(n) THEN [node |-> [n EXCEPT !.index = MaxLeafID(n)], next |-> next]
  ELSE LET r == ReindexAll(n.children, next)
       IN [node |-> [n EXCEPT !.children = r.nodes, !.index = r.next],
           next |-> r.next + 1]
ReindexAll(cs, next) ==
  IF cs = <<>> THEN [nodes |-> <<>>, next |-> next]
  ELSE LET h == ReindexFrom(Head(cs), next)
           t == ReindexAll(Tail(cs), h.next)
       IN [nodes |-> <<h.node>> \o t.nodes, next |-> t.next]
\* A Reindex that numbers the internal nodes from MaxLeafID on.
ReindexFromMaxLeafID(n) == ReindexFrom(n, MaxLeafID(n)).node

Reindex(n) == ReindexFrom(n, 1 + MaxLeafID(n)).node

\* Node::Reindex, the assert on the insertion into tag_index_map: it fails
\* when two nodes of the tree have the same tag.
ReindexAborts(n) ==
  \E i, j \in DOMAIN PostOrder(n) :
    i # j /\ PostOrder(n)[i].tag = PostOrder(n)[j].tag

\* Node::Reindex, the map it returns: the index of every tag.
TagIndexMap(n) ==
  LET nodes == PostOrder(Reindex(n))
  IN [tag \in {nodes[i].tag : i \in DOMAIN nodes} |->
        nodes[CHOOSE i \in DOMAIN nodes : nodes[i].tag = tag].index]

\* Node::IndexVector, the assignments of its lambda in the order they are
\* made: <<child index, parent index>> for every child of every internal
\* node of the post-order sequence nodes.
RECURSIVE IndexVectorWrites(_)
IndexVectorWrites(nodes) ==
  IF nodes = <<>> THEN <<>>
  ELSE Tup([j \in 1 .. Len(Head(nodes).children) |->
              <<Head(nodes).children[j].index, Head(nodes).index>>])
       \o IndexVectorWrites(Tail(nodes))

\* Node::IndexVector fails: a vector of Index() entries cannot be made when
\* the root has no index (SIZE_MAX), and the lambda aborts on a child whose
\* index is not below the size of the vector.
IndexVectorAborts(n) ==
  \/ n.index = NoIndex
  \/ \E w \in Range(IndexVectorWrites(PostOrder(n))) :
       w[1] = NoIndex \/ w[1] >= n.index

\* An IndexVector that stores at the slot of a child the child's own index.
IndexVectorOwnIndex(n) == Tup([slot \in 1 .. n.index |-> slot - 1])

\* Node::IndexVector when it does not fail: Index() entries, zero where
\* nothing is assigned, otherwise what was assigned last.
IndexVector(n) ==
  LET writes == IndexVectorWrites(PostOrder(n))
  IN Tup([slot \in 1 .. n.index |->
            LET at == {k \in DOMAIN writes : writes[k][1] = slot - 1}
            IN IF at = {} THEN 0
               ELSE writes[CHOOSE k \in at : \A l \in at : l <= k][2]])

\* Node::OfIndexVector, downward_indices: the children of every index that
\* is the parent of some index, in increasing order.
DownwardIndices(indices) ==
  [parent_index \in Range(indices) |->
     SelectSeq(Tup([k \in 1 .. Len(indices) |-> k - 1]),
               LAMBDA child_index : indices[child_index + 1] = parent_index)]

\* Node::OfIndexVector, build_tree: a leaf for an index that has no
\* children, else the Join of the trees of its children; Thrown when a Join
\* aborts.
RECURSIVE BuildTree(_, _)
BuildTree(downward_indices, current_index) ==
  IF current_index \notin DOMAIN downward_indices THEN Leaf(current_index)
  ELSE LET children ==
             Tup([k \in 1 .. Len(downward_indices[current_index]) |->
                    BuildTree(downward_indices, downward_indices[current_index][k])])
       IN IF Thrown \in Range(children) \/ JoinAborts(children) THEN Thrown
          ELSE NodeOf(children, current_index)

\* Node::OfIndexVector: the tree of the index that has no entry, the length
\* of the vector.
OfIndexVector(indices) == BuildTree(DownwardIndices(indices), Len(indices))

(*************************** topologies ***********************************)
Min(S) == CHOOSE x \in S : \A y \in S : x <= y

\* The rooted binary topologies on the leaf set S, children in stored order.
RECURSIVE BinaryTopologies(_)
BinaryTopologies(S) ==
  IF Cardinality(S) = 1 THEN {Leaf(Min(S))}
  ELSE UNION {
         {Join(<<a, b>>) : a \in BinaryTopologies(A), b \in BinaryTopologies(S \ A)} :
         A \in {X \in SUBSET S : Min(S) \in X /\ X # S}}

\* The topologies on the taxa S with a trifurcation at the root and
\* bifurcations below it, indexed by Reindex as the parser leaves them.
TrifurcatingTopologies(S) ==
  UNION {
    UNION {
      {Reindex(Join(<<a, b, c>>)) :
         a \in BinaryTopologies(A), b \in BinaryTopologies(B),
         c \in BinaryTopologies((S \ A) \ B)} :
      B \in {Y \in SUBSET (S \ A) : Min(S \ A) \in Y /\ Y # (S \ A)}} :
    A \in {X \in SUBSET S : 0 \in X /\ Cardinality(S \ X) >= 2}}

\* A tree as a Newick file lists it: the children of a node in the order
\* written, which need not be the order the Node constructor stores.
RECURSIVE Newick(_, _)
Newick(n, reversed) ==
  IF IsLeaf(n) THEN [leaf |-> MaxLeafID(n), sub |-> <<>>]
  ELSE LET k == Len(n.children)
       IN [leaf |-> NoIndex,
           sub |-> Tup([i \in 1 .. k |->
                          Newick(n.children[IF reversed THEN k + 1 - i ELSE i],
                                 reversed)])]

\* The parser's tree of a Newick tree: Leaf and Join bottom-up, then Reindex.
RECURSIVE ParseNode(_)
ParseNode(t) ==
  IF t.sub = <<>> THEN Leaf(t.leaf)
  ELSE Join(Tup([i \in 1 .. Len(t.sub) |-> ParseNode(t.sub[i])]))
ParseTree(t) == Reindex(ParseNode(t))

\* The parser's trees of a file.
ParseFile(file) == Tup([i \in 1 .. Len(file) |-> ParseTree(file[i])])

(*************************** traversals of node.cpp ***********************)
\* Node::TriplePreOrderInternal: the (parent, sister, node) triples in the
\* order f is called on them.
RECURSIVE TriplePreOrderInternal(_)
TriplePreOrderInternal(n) ==
  IF IsLeaf(n) THEN <<>>
  ELSE <<<<n, n.children[2], n.children[1]>>>>
       \o TriplePreOrderInternal(n.children[1])
       \o <<<<n, n.children[1], n.children[2]>>>>
       \o TriplePreOrderInternal(n.children[2])

\* The asserts of TriplePreOrder and TriplePreOrderInternal hold: three
\* children at the root and two at every other internal node.
RECURSIVE AllBifurcating(_)
AllBifurcating(n) ==
  IsLeaf(n) \/ ( /\ Len(n.children) = 2
                 /\ AllBifurcating(n.children[1])
                 /\ AllBifurcating(n.children[2]) )
TriplePreOrderAsserts(n) ==
  /\ Len(n.children) = 3
  /\ \A i \in 1 .. 3 : AllBifurcating(n.children[i])

\* Node::TriplePreOrder, the calls of f_root.
TripleRootCalls(n) ==
  << <<n.children[1], n.children[2], n.children[3]>>,
     <<n.children[2], n.children[3], n.children[1]>>,
     <<n.children[3], n.children[1], n.children[2]>> >>

\* Node::TriplePreOrder, the calls of f_internal.
TripleInternalCalls(n) ==
  TriplePreOrderInternal(n.children[1])
  \o TriplePreOrderInternal(n.children[2])
  \o TriplePreOrderInternal(n.children[3])

\* One call of the PCSSFun f: four nodes, each with its direction flag
\* (true: take the complement of the node's leaf set).
PCSSCall(sister, sdir, focal, fdir, child0, c0dir, child1, c1dir) ==
  [sister |-> sister, sister_direction |-> sdir,
   focal |-> focal, focal_direction |-> fdir,
   child0 |-> child0, child0_direction |-> c0dir,
   child1 |-> child1, child1_direction |-> c1dir]

\* An f_root lambda without its last call, the virtual root in child1.
PCSSRootNoChild1(node0, node1, node2) ==
  <<PCSSCall(node2, FALSE, node2, TRUE, node0, FALSE, node1, FALSE)>>
  \o IF IsLeaf(node2) THEN <<>>
     ELSE LET child0 == node2.children[1]
              child1 == node2.children[2]
          IN << PCSSCall(node0, FALSE, node2, FALSE, child0, FALSE, child1, FALSE),
                PCSSCall(node1, FALSE, node2, FALSE, child0, FALSE, child1, FALSE),
                PCSSCall(node2, TRUE, node2, FALSE, child0, FALSE, child1, FALSE),
                PCSSCall(child1, FALSE, node2, TRUE, node0, FALSE, node1, FALSE) >>

\* Node::PCSSPreOrder, the f_root lambda on (node0, node1, node2).
PCSSRoot(node0, node1, node2) ==
  <<PCSSCall(node2, FALSE, node2, TRUE, node0, FALSE, node1, FALSE)>>
  \o IF IsLeaf(node2) THEN <<>>
     ELSE LET child0 == node2.children[1]
              child1 == node2.children[2]
          IN << PCSSCall(node0, FALSE, node2, FALSE, child0, FALSE, child1, FALSE),
                PCSSCall(node1, FALSE, node2, FALSE, child0, FALSE, child1, FALSE),
                PCSSCall(node2, TRUE, node2, FALSE, child0, FALSE, child1, FALSE),
                PCSSCall(child1, FALSE, node2, TRUE, node0, FALSE, node1, FALSE),
                PCSSCall(child0, FALSE, node2, TRUE, node0, FALSE, node1, FALSE) >>

\* An f_internal lambda whose call for the virtual root in sister takes the
\* parent as it is instead of its complement.
PCSSInternalParentDown(parent, sister, node) ==
  <<PCSSCall(node, FALSE, node, TRUE, parent, TRUE, sister, FALSE)>>
  \o IF IsLeaf(node) THEN <<>>
     ELSE LET child0 == node.children[1]
              child1 == node.children[2]
          IN << PCSSCall(sister, FALSE, node, FALSE, child0, FALSE, child1, FALSE),
                PCSSCall(parent, FALSE, node, FALSE, child0, FALSE, child1, FALSE),
                PCSSCall(node, TRUE, node, FALSE, child0, FALSE, child1, FALSE),
                PCSSCall(child1, FALSE, node, TRUE, sister, FALSE, parent, TRUE),
                PCSSCall(child0, FALSE, node, TRUE, sister, FALSE, parent, TRUE) >>

\* Node::PCSSPreOrder, the f_internal lambda on (parent, sister, node).
PCSSInternal(parent, sister, node) ==
  <<PCSSCall(node, FALSE, node, TRUE, parent, TRUE, sister, FALSE)>>
  \o IF IsLeaf(node) THEN <<>>
     ELSE LET child0 == node.children[1]
              child1 == node.children[2]
          IN << PCSSCall(sister, FALSE, node, FALSE, child0, FALSE, child1, FALSE),
                PCSSCall(parent, TRUE, node, FALSE, child0, FALSE, child1, FALSE),
                PCSSCall(node, TRUE, node, FALSE, child0, FALSE, child1, FALSE),
                PCSSCall(child1, FALSE, node, TRUE, sister, FALSE, parent, TRUE),
                PCSSCall(child0, FALSE, node, TRUE, sister, FALSE, parent, TRUE) >>

RECURSIVE FlatMapRoot(_)
FlatMapRoot(calls) ==
  IF calls = <<>> THEN <<>>
  ELSE PCSSRoot(Head(calls)[1], Head(calls)[2], Head(calls)[3])
       \o FlatMapRoot(Tail(calls))

RECURSIVE FlatMapInternal(_)
FlatMapInternal(calls) ==
  IF calls = <<>> THEN <<>>
  ELSE PCSSInternal(Head(calls)[1], Head(calls)[2], Head(calls)[3])
       \o FlatMapInternal(Tail(calls))

\* Node::PCSSPreOrder: the calls of f, in order.
PCSSPreOrder(topology) ==
  FlatMapRoot(TripleRootCalls(topology))
  \o FlatMapInternal(TripleInternalCalls(topology))

(*************************** build.cpp ************************************)
\* TagBitsetMapOf: the leaf set of every node, keyed by the node's tag,
\* filled in post-order.
RECURSIVE UnionOfChildren(_, _, _)
UnionOfChildren(m, cs, x) ==
  IF cs = <<>> THEN x
  ELSE UnionOfChildren(m, Tail(cs), BitOr(x, m[Head(cs).tag]))

RECURSIVE TagBitsetMapFill(_, _, _)
TagBitsetMapFill(m, nodes, leaf_count) ==
  IF nodes = <<>> THEN m
  ELSE LET n == Head(nodes)
           x == IF IsLeaf(n) THEN SetBit(ZeroBitset(leaf_count), MaxLeafID(n))
                ELSE UnionOfChildren(m, n.children, ZeroBitset(leaf_count))
       IN TagBitsetMapFill(m @@ (n.tag :> x), Tail(nodes), leaf_count)

TagBitsetMapOf(t) == TagBitsetMapFill(<<>>, PostOrder(t), LeafCount(t))

\* DefaultDict::increment(key, count) on a counter with default 0.
Increment(d, key, count) ==
  IF key \in DOMAIN d THEN [d EXCEPT ![key] = @ + count] ELSE d @@ (key :> count)

\* RootsplitCounterOf, the Aux lambda over child->PreOrder of every child
\* of the root: the nodes below the root in that order.
RECURSIVE RootsplitsOfNodes(_, _, _, _)
RootsplitsOfNodes(counter, nodes, tag_to_bitset, count) ==
  IF nodes = <<>> THEN counter
  ELSE RootsplitsOfNodes(
         Increment(counter, Minorize(tag_to_bitset[Head(nodes).tag]), count),
         Tail(nodes), tag_to_bitset, count)

\* RootsplitCounterOf, the body of the loop for one topology.
RootsplitCounterStep(counter, topology, count) ==
  RootsplitsOfNodes(counter, PreOrderAll(topology.children),
                    TagBitsetMapOf(topology), count)

\* RootsplitCounterOf(topologies): topologies maps a topology to its count.
RECURSIVE RootsplitCounterLoop(_, _, _)
RootsplitCounterLoop(counter, topologies, todo) ==
  IF todo = {} THEN counter
  ELSE LET t == CHOOSE x \in todo : TRUE
       IN RootsplitCounterLoop(RootsplitCounterStep(counter, t, topologies[t]),
                               topologies, todo \ {t})
RootsplitCounterOf(topologies) ==
  RootsplitCounterLoop(<<>>, topologies, DOMAIN topologies)

\* PCSSCounterOf, the lambda: the parent subsplit of one call (sister chunk,
\* then focal chunk).
PCSSParentOf(call, tag_to_bitset, leaf_count) ==
  CopyFrom(
    CopyFrom(ZeroBitset(2 * leaf_count), tag_to_bitset[call.sister.tag], 0,
             call.sister_direction),
    tag_to_bitset[call.focal.tag], leaf_count, call.focal_direction)

\* A child bitset that is always that of child0.
PCSSChildFirst(call, tag_to_bitset) ==
  IF call.child0_direction THEN Flip(tag_to_bitset[call.child0.tag])
  ELSE tag_to_bitset[call.child0.tag]

\* PCSSCounterOf, the lambda: the child bitset of one call.
PCSSChildOf(call, tag_to_bitset) ==
  LET child0 == IF call.child0_direction THEN Flip(tag_to_bitset[call.child0.tag])
                ELSE tag_to_bitset[call.child0.tag]
      child1 == IF call.child1_direction THEN Flip(tag_to_bitset[call.child1.tag])
                ELSE tag_to_bitset[call.child1.tag]
  IN BitMin(child0, child1)

\* An insertion that starts a fresh child counter even for a parent seen before.
PCSSInsertOverwrite(pcss_dict, parent, child, count) ==
  IF parent \notin DOMAIN pcss_dict
  THEN pcss_dict @@ (parent :> Increment(<<>>, child, count))
  ELSE [pcss_dict EXCEPT ![parent] = Increment(<<>>, child, count)]

\* PCSSCounterOf, the lambda: insert the parent-child pair into the map.
PCSSInsert(pcss_dict, parent, child, count) ==
  IF parent \notin DOMAIN pcss_dict
  THEN pcss_dict @@ (parent :> Increment(<<>>, child, count))
  ELSE [pcss_dict EXCEPT ![parent] = Increment(@, child, count)]

RECURSIVE PCSSOfCalls(_, _, _, _, _)
PCSSOfCalls(pcss_dict, calls, tag_to_bitset, leaf_count, count) ==
  IF calls = <<>> THEN pcss_dict
  ELSE PCSSOfCalls(
         PCSSInsert(pcss_dict, PCSSParentOf(Head(calls), tag_to_bitset, leaf_count),
                    PCSSChildOf(Head(calls), tag_to_bitset), count),
         Tail(calls), tag_to_bitset, leaf_count, count)

\* PCSSCounterOf, the body of the loop for one topology (three root children).
PCSSCounterStep(pcss_dict, topology, count) ==
  PCSSOfCalls(pcss_dict, PCSSPreOrder(topology), TagBitsetMapOf(topology),
              LeafCount(topology), count)

\* PCSSCounterOf aborts on a topology without a trifurcation at the root.
PCSSCounterAborts(topologies) ==
  \E t \in DOMAIN topologies : ~TriplePreOrderAsserts(t)

RECURSIVE PCSSCounterLoop(_, _, _)
PCSSCounterLoop(pcss_dict, topologies, todo) ==
  IF todo = {} THEN pcss_dict
  ELSE LET t == CHOOSE x \in todo : TRUE
       IN PCSSCounterLoop(PCSSCounterStep(pcss_dict, t, topologies[t]),
                          topologies, todo \ {t})
PCSSCounterOf(topologies) == PCSSCounterLoop(<<>>, topologies, DOMAIN topologies)

(*************************** tree collection, SBN maps ********************)
\* TreeCollection::TopologyCounter: the trees counted by topology, two
\* trees being one topology when Node::operator== holds.
RECURSIVE TopologyCounterOf(_, _)
TopologyCounterOf(counter, trees) ==
  IF trees = <<>> THEN counter
  ELSE LET t == Head(trees)
           same == {k \in DOMAIN counter : NodeEq(k, t)}
       IN TopologyCounterOf(
            IF same = {} THEN counter @@ (t :> 1)
            ELSE [counter EXCEPT ![CHOOSE k \in same : TRUE] = @ + 1],
            Tail(trees))
TopologyCounter(trees) == TopologyCounterOf(<<>>, trees)

\* Node::TriplePreOrderBifurcating: the (parent, sister, node) triples of a
\* bifurcating topology in the order f is called on them.
RECURSIVE TriplePreOrderBifurcating(_)
TriplePreOrderBifurcating(n) ==
  IF IsLeaf(n) THEN <<>>
  ELSE <<<<n, n.children[2], n.children[1]>>>>
       \o TriplePreOrderBifurcating(n.children[1])
       \o <<<<n, n.children[1], n.children[2]>>>>
       \o TriplePreOrderBifurcating(n.children[2])

\* AtWithDefault: the value of a key, or default_index for a missing key.
AtWithDefault(indexer, key, default_index) ==
  IF key \in DOMAIN indexer THEN indexer[key] ELSE default_index

\* The keys of a rooted bifurcating topology: its rootsplit, then the PCSS
\* (sister | focal | smaller child) of every internal node below the root.
RECURSIVE RootedPCSSKeys(_, _)
RootedPCSSKeys(triples, tag_to_bitset) ==
  IF triples = <<>> THEN <<>>
  ELSE LET sister == Head(triples)[2]
           node == Head(triples)[3]
       IN (IF IsLeaf(node) THEN <<>>
           ELSE <<tag_to_bitset[sister.tag] \o tag_to_bitset[node.tag]
                  \o BitMin(tag_to_bitset[node.children[1].tag],
                            tag_to_bitset[node.children[2].tag])>>)
          \o RootedPCSSKeys(Tail(triples), tag_to_bitset)

RootedKeysOf(topology) ==
  LET tag_to_bitset == TagBitsetMapOf(topology)
  IN <<Minorize(tag_to_bitset[topology.children[1].tag])>>
     \o RootedPCSSKeys(TriplePreOrderBifurcating(topology), tag_to_bitset)

\* SBNMaps::RootedIndexerRepresentationOf: the indices of the keys of a
\* rooted topology, default_index standing for a key the indexer lacks.
RootedIndexerRepresentationOf(indexer, topology, default_index) ==
  LET keys == RootedKeysOf(topology)
  IN Tup([i \in 1 .. Len(keys) |-> AtWithDefault(indexer, keys[i], default_index)])

\* The node of index k is n or lies below n.
RECURSIVE HasIndex(_, _)
HasIndex(n, k) ==
  n.index = k \/ \E i \in 1 .. Len(n.children) : HasIndex(n.children[i], k)

\* The unrooted topology rooted on the edge above the node of index k:
\* RootedAt(n, k, above) is the rooted tree whose one root child is that
\* node and whose other is everything else, above being what lies above n.
RECURSIVE RootedAt(_, _, _)
RootedAt(n, k, above) ==
  LET i == CHOOSE j \in 1 .. Len(n.children) : HasIndex(n.children[j], k)
      others == SelectSeq(n.children, LAMBDA c : c # n.children[i])
      up == Join(IF above = <<>> THEN others ELSE others \o above)
  IN IF n.children[i].index = k THEN Join(<<n.children[i], up>>)
     ELSE RootedAt(n.children[i], k, <<up>>)

\* SBNMaps::IndexerRepresentationOf: one rooted view per edge of the
\* unrooted topology, the view of the edge above node k at position k.
IndexerRepresentationOf(indexer, topology, default_index) ==
  Tup([k \in 1 .. topology.index |->
         RootedIndexerRepresentationOf(indexer, RootedAt(topology, k - 1, <<>>),
                                       default_index)])

(*************************** SBNInstance **********************************)
VARIABLES
  newick,            \* the Newick trees the collection was parsed from
  tree_collection_,  \* the topologies of tree_collection_.trees_
  topology_counter_, \* topology -> count
  indexer_,          \* rootsplit or PCSS bitset -> index
  rootsplits_,       \* the rootsplits, rootsplits_[i + 1] having index i
  index_to_child_,   \* PCSS index -> child subsplit
  parent_to_range_,  \* parent subsplit -> <<start, end>>
  sbn_parameters_,   \* sbn_parameters_[i + 1] is the parameter of index i
  taxon_names_,      \* the taxa of the processed collection
  last,              \* the call made last, see Called
  result,            \* what the call made last returned
  status,            \* "running", or "aborted" once abort() was called
  alignment_,        \* alignment_.SequenceCount()
  engine_            \* "nullptr", or "engine" once MakeEngine made one

vars == <<newick, tree_collection_, topology_counter_, indexer_, rootsplits_,
          index_to_child_, parent_to_range_, sbn_parameters_, taxon_names_,
          last, result, status, alignment_, engine_>>

\* The members that ClearTreeCollectionAssociatedState and
\* ProcessLoadedTrees work on, as one record.
SBNMaps ==
  [topology_counter |-> topology_counter_, indexer |-> indexer_,
   rootsplits |-> rootsplits_, index_to_child |-> index_to_child_,
   parent_to_range |-> parent_to_range_, sbn_parameters |-> sbn_parameters_,
   failed |-> FALSE, aborted |-> FALSE]

\* The maps of a newly constructed SBNInstance.
EmptyMaps ==
  [topology_counter |-> <<>>, indexer |-> <<>>, rootsplits |-> <<>>,
   index_to_child |-> <<>>, parent_to_range |-> <<>>, sbn_parameters |-> <<>>,
   failed |-> FALSE, aborted |-> FALSE]

\* A clear that forgets parent_to_range_.
ClearKeepsParentToRange(m) ==
  [m EXCEPT !.sbn_parameters = <<>>, !.rootsplits = <<>>, !.indexer = <<>>,
            !.index_to_child = <<>>, !.topology_counter = <<>>]

\* A clear that forgets rootsplits_.
ClearKeepsRootsplits(m) ==
  [m EXCEPT !.sbn_parameters = <<>>, !.indexer = <<>>, !.index_to_child = <<>>,
            !.parent_to_range = <<>>, !.topology_counter = <<>>]

\* SBNInstance::ClearTreeCollectionAssociatedState.
ClearTreeCollectionAssociatedState(m) ==
  [m EXCEPT !.sbn_parameters = <<>>, !.rootsplits = <<>>, !.indexer = <<>>,
            !.index_to_child = <<>>, !.parent_to_range = <<>>,
            !.topology_counter = <<>>]

\* SafeInsert(map, key, value): insert, or fail when the key is present.
SafeInsertFails(map, key) == key \in DOMAIN map
SafeInsert(map, key, value) == map @@ (key :> value)

\* The rootsplit loop without its index++.
RECURSIVE AddRootsplitsSameIndex(_, _, _)
AddRootsplitsSameIndex(m, keys, index) ==
  IF keys = <<>> \/ m.failed THEN [maps |-> m, index |-> index]
  ELSE IF SafeInsertFails(m.indexer, Head(keys))
  THEN [maps |-> [m EXCEPT !.failed = TRUE], index |-> index]
  ELSE AddRootsplitsSameIndex(
         [m EXCEPT !.indexer = SafeInsert(@, Head(keys), index),
                   !.rootsplits = Append(@, Head(keys))],
         Tail(keys), index)

\* ProcessLoadedTrees, the rootsplit loop: keys is what is left of the
\* rootsplit counter's iteration, index the next free index.
RECURSIVE AddRootsplits(_, _, _)
AddRootsplits(m, keys, index) ==
  IF keys = <<>> \/ m.failed THEN [maps |-> m, index |-> index]
  ELSE IF SafeInsertFails(m.indexer, Head(keys))
  THEN [maps |-> [m EXCEPT !.failed = TRUE], index |-> index]
  ELSE AddRootsplits(
         [m EXCEPT !.indexer = SafeInsert(@, Head(keys), index),
                   !.rootsplits = Append(@, Head(keys))],
         Tail(keys), index + 1)

\* ProcessLoadedTrees, the inner loop over the children of one parent.
RECURSIVE AddChildren(_, _, _, _)
AddChildren(m, parent, children, index) ==
  IF children = <<>> \/ m.failed THEN [maps |-> m, index |-> index]
  ELSE LET child == Head(children)
       IN IF \/ SafeInsertFails(m.indexer, parent \o child)
             \/ SafeInsertFails(m.index_to_child, index)
          THEN [maps |-> [m EXCEPT !.failed = TRUE], index |-> index]
          ELSE AddChildren(
                 [m EXCEPT !.indexer = SafeInsert(@, parent \o child, index),
                           !.index_to_child =
                              SafeInsert(@, index, ChildSubsplit(parent, child))],
                 parent, Tail(children), index + 1)

\* A block one index short of the parent's children.
RangeShort(index, child_counter) ==
  <<index, index + Cardinality(DOMAIN child_counter) - 1>>

\* ProcessLoadedTrees, the range {index, index + child_counter.size()} of a
\* parent whose first child gets index.
RangeOf(index, child_counter) ==
  <<index, index + Cardinality(DOMAIN child_counter)>>

\* ProcessLoadedTrees, the loop over the parents of the PCSS counter.
RECURSIVE AddPCSSs(_, _, _, _)
AddPCSSs(m, pcss_dict, parents, index) ==
  IF parents = <<>> \/ m.failed THEN [maps |-> m, index |-> index]
  ELSE LET parent == Head(parents)
           child_counter == pcss_dict[parent]
       IN IF SafeInsertFails(m.parent_to_range, parent)
          THEN [maps |-> [m EXCEPT !.failed = TRUE], index |-> index]
          ELSE LET r == AddChildren(
                          [m EXCEPT !.parent_to_range =
                             SafeInsert(@, parent, RangeOf(index, child_counter))],
                          parent, IterationOrder(DOMAIN child_counter), index)
               IN AddPCSSs(r.maps, pcss_dict, Tail(parents), r.index)

\* A parameter vector of zeros.
SetZero(index) == Tup([i \in 1 .. index |-> 0])

\* ProcessLoadedTrees, sbn_parameters_.resize(index) and setOnes().
SetOnes(index) == Tup([i \in 1 .. index |-> 1])

\* SBNInstance::ProcessLoadedTrees on the maps m and the trees of the
\* collection, up to setOnes; failed when a SafeInsert threw and aborted
\* when PCSSCounterOf called abort(), either of which leaves the maps as
\* they were at that point.
ProcessLoadedTreesMaps(m, trees) ==
  LET cleared == ClearTreeCollectionAssociatedState(m)
      counted == [cleared EXCEPT !.topology_counter = TopologyCounter(trees)]
      rootsplit_counter == RootsplitCounterOf(counted.topology_counter)
      r1 == AddRootsplits(counted, IterationOrder(DOMAIN rootsplit_counter), 0)
      pcss_dict == PCSSCounterOf(counted.topology_counter)
      r2 == AddPCSSs(r1.maps, pcss_dict, IterationOrder(DOMAIN pcss_dict), r1.index)
  IN IF r1.maps.failed THEN r1.maps
     ELSE IF PCSSCounterAborts(counted.topology_counter)
     THEN [r1.maps EXCEPT !.aborted = TRUE]
     ELSE IF r2.maps.failed THEN r2.maps
     ELSE [r2.maps EXCEPT !.sbn_parameters = SetOnes(r2.index)]

\* TreeCollection::TaxonNames: one name per taxon of the collection.
TaxonNames(trees) ==
  IF trees = <<>> THEN <<>> ELSE Tup([i \in 1 .. LeafCount(trees[1]) |-> i - 1])

\* The record of a call: the operation, whether it threw or aborted, and
\* whether the indexer held keys when it was called.
Called(op, failed) ==
  [op |-> op, failed |-> failed, had_maps |-> indexer_ # <<>>]

\* The SBNInstance constructor.
Init ==
  /\ newick = <<>>
  /\ tree_collection_ = <<>>
  /\ topology_counter_ = <<>>
  /\ indexer_ = <<>>
  /\ rootsplits_ = <<>>
  /\ index_to_child_ = <<>>
  /\ parent_to_range_ = <<>>
  /\ sbn_parameters_ = <<>>
  /\ taxon_names_ = <<>>
  /\ alignment_ = 0
  /\ engine_ = "nullptr"
  /\ last = Called("SBNInstance", FALSE)
  /\ result = <<>>
  /\ status = "running"

\* SBNInstance::ReadNewickFile / ReadNexusFile: the parsed trees of the file
\* replace the tree collection.
ReadNewickFile(file) ==
  /\ status = "running"
  /\ newick' = file
  /\ tree_collection_' = ParseFile(file)
  /\ last' = Called("ReadNewickFile", FALSE)
  /\ result' = <<>>
  /\ UNCHANGED <<alignment_, engine_, topology_counter_, indexer_, rootsplits_, index_to_child_,
                 parent_to_range_, sbn_parameters_, taxon_names_, status>>

\* SBNInstance::ProcessLoadedTrees.
ProcessLoadedTrees ==
  /\ status = "running"
  /\ \E m \in {ProcessLoadedTreesMaps(SBNMaps, tree_collection_)} :
        /\ topology_counter_' = m.topology_counter
        /\ indexer_' = m.indexer
        /\ rootsplits_' = m.rootsplits
        /\ index_to_child_' = m.index_to_child
        /\ parent_to_range_' = m.parent_to_range
        /\ sbn_parameters_' = m.sbn_parameters
        /\ taxon_names_' = IF m.aborted \/ m.failed THEN taxon_names_
                           ELSE TaxonNames(tree_collection_)
        /\ status' = IF m.aborted THEN "aborted" ELSE "running"
        /\ last' = Called("ProcessLoadedTrees", m.aborted \/ m.failed)
  /\ result' = <<>>
  /\ UNCHANGED <<alignment_, engine_, newick, tree_collection_>>

\* The sum of f over the set S.
RECURSIVE SumOver(_, _)
SumOver(f, S) ==
  IF S = {} THEN 0
  ELSE LET x == CHOOSE y \in S : TRUE IN f[x] + SumOver(f, S \ {x})

\* SBNMaps::IndexerRepresentationCounterOf: the indexer representation and
\* the count of every topology of the counter.
IndexerRepresentationCounterOf(indexer, topology_counter, default_index) ==
  [t \in DOMAIN topology_counter |->
     [representation |-> IndexerRepresentationOf(indexer, t, default_index),
      count |-> topology_counter[t]]]

\* How often index i occurs in the rooted views of a representation.
Occurrences(representation, i) ==
  Cardinality({p \in UNION {{<<v, k>> : k \in DOMAIN representation[v]} :
                            v \in DOMAIN representation} :
               representation[p[1]][p[2]] = i})

\* SBNProbability::SimpleAverage: every parameter becomes the count of its
\* rootsplit or PCSS over the rooted views of the counted topologies.
SimpleAverage(sbn_parameters, counter) ==
  Tup([i \in 1 .. Len(sbn_parameters) |->
         SumOver([t \in DOMAIN counter |->
                    counter[t].count * Occurrences(counter[t].representation, i - 1)],
                 DOMAIN counter)])

\* Bitset::ToString: one character per bit.
BitsetToString(b) == Tup([i \in 1 .. Len(b) |-> IF b[i] = 1 THEN "1" ELSE "0"])

\* Bitset::PCSSToString: the three chunks of a PCSS with a bar between them.
PCSSToString(b) ==
  LET n == Len(b) \div 3
  IN BitsetToString(SubSeq(b, 1, n)) \o <<"|">> \o BitsetToString(SubSeq(b, n + 1, 2 * n))
     \o <<"|">> \o BitsetToString(SubSeq(b, 2 * n + 1, 3 * n))

\* SBNInstance::PrettyIndexer: a vector of indexer_.size() strings, the
\* string of every key written at the key's index (by the last such key of
\* the iteration when several keys have one index), the other entries left
\* empty.
PrettyIndexer ==
  Tup([i \in 1 .. Cardinality(DOMAIN indexer_) |->
         LET keys == {k \in DOMAIN indexer_ : indexer_[k] = i - 1}
             key == CHOOSE k \in keys : \A y \in keys : ~BitLess(k, y)
         IN IF keys = {} THEN <<>>
            ELSE IF i - 1 < Len(rootsplits_) THEN BitsetToString(key)
            ELSE PCSSToString(key)])

\* SBNInstance::TrainSimpleAverage.
TrainSimpleAverage ==
  /\ status = "running"
  /\ sbn_parameters_' =
       SimpleAverage(sbn_parameters_,
                     IndexerRepresentationCounterOf(indexer_, topology_counter_,
                                                    Len(sbn_parameters_)))
  /\ last' = Called("TrainSimpleAverage", FALSE)
  /\ result' = <<>>
  /\ UNCHANGED <<alignment_, engine_, newick, tree_collection_, topology_counter_, indexer_,
                 rootsplits_, index_to_child_, parent_to_range_, taxon_names_,
                 status>>

\* A MakeIndexerRepresentations whose sentinel is the number of rootsplits.
IndexerRepresentationsRootsplitSentinel ==
  Tup([i \in 1 .. Len(tree_collection_) |->
         IndexerRepresentationOf(indexer_, tree_collection_[i], Len(rootsplits_))])

\* A MakeIndexerRepresentations whose sentinel is the last index in use.
IndexerRepresentationsLastIndex ==
  Tup([i \in 1 .. Len(tree_collection_) |->
         IndexerRepresentationOf(indexer_, tree_collection_[i],
                                 IF sbn_parameters_ = <<>> THEN 0
                                 ELSE Len(sbn_parameters_) - 1)])

\* SBNInstance::MakeIndexerRepresentations, what it returns: the
\* representation of every tree of the collection, with the length of
\* sbn_parameters_ as sentinel.
IndexerRepresentations ==
  Tup([i \in 1 .. Len(tree_collection_) |->
         IndexerRepresentationOf(indexer_, tree_collection_[i],
                                 Len(sbn_parameters_))])

\* A call of SBNInstance::MakeIndexerRepresentations.
MakeIndexerRepresentations ==
  /\ status = "running"
  /\ result' = IndexerRepresentations
  /\ last' = Called("MakeIndexerRepresentations", FALSE)
  /\ UNCHANGED <<alignment_, engine_, newick, tree_collection_, topology_counter_, indexer_,
                 rootsplits_, index_to_child_, parent_to_range_,
                 sbn_parameters_, taxon_names_, status>>

\* The block of the index: the rootsplits, or the range of the parent that
\* holds it.
BlockOf(index, rootsplit_count, parent_to_range) ==
  IF index < rootsplit_count THEN <<0, rootsplit_count>>
  ELSE parent_to_range[CHOOSE parent \in DOMAIN parent_to_range :
                         /\ parent_to_range[parent][1] <= index
                         /\ index < parent_to_range[parent][2]]

\* SBNProbability::ProbabilityNormalizeParamsInLog: every block of the
\* vector normalized in log space.  The normalized parameter of an index
\* is kept as [log |-> x, block |-> xs], which stands for the probability
\* exp(x) / (sum of exp(y) over the values y of xs), xs being the block.
ProbabilityNormalizeParamsInLog(sbn_parameters, rootsplit_count, parent_to_range) ==
  Tup([i \in 1 .. Len(sbn_parameters) |->
         [log |-> sbn_parameters[i],
          block |-> LET block == BlockOf(i - 1, rootsplit_count, parent_to_range)
                    IN SubSeq(sbn_parameters, block[1] + 1, block[2])]])

\* SBNProbability::ProbabilityOf for one topology: the probability is the
\* sum over the rooted views of the product of the parameters at the view's
\* indices, a view that holds an index outside the vector (the sentinel)
\* contributing zero.  What is returned is the sequence of the non-zero
\* terms in the order of the views, each term the sequence of its factors;
\* the probability is 0 exactly when the sequence is empty.
ProbabilityOf(sbn_parameters, indexer_representation) ==
  LET InSupport(rooted_representation) ==
        \A j \in DOMAIN rooted_representation :
          rooted_representation[j] < Len(sbn_parameters)
      kept == SelectSeq(indexer_representation, InSupport)
  IN Tup([k \in 1 .. Len(kept) |->
            Tup([j \in 1 .. Len(kept[k]) |-> sbn_parameters[kept[k][j] + 1]])])

\* A CalculateSBNProbabilities that works on sbn_parameters_ itself: every
\* block is shifted by its first value.
CalculateSBNProbabilitiesInPlace ==
  /\ status = "running"
  /\ sbn_parameters_' =
       Tup([i \in 1 .. Len(sbn_parameters_) |->
              sbn_parameters_[i]
              - sbn_parameters_[BlockOf(i - 1, Len(rootsplits_),
                                        parent_to_range_)[1] + 1]])
  /\ result' = <<>>
  /\ last' = Called("CalculateSBNProbabilities", FALSE)
  /\ UNCHANGED <<alignment_, engine_, newick, tree_collection_, topology_counter_, indexer_,
                 rootsplits_, index_to_child_, parent_to_range_,
                 taxon_names_, status>>

\* SBNInstance::CalculateSBNProbabilities: the probability of every tree of
\* the collection under a normalized copy of sbn_parameters_.
CalculateSBNProbabilities ==
  /\ status = "running"
  /\ \E sbn_parameters_copy \in
        {ProbabilityNormalizeParamsInLog(sbn_parameters_, Len(rootsplits_),
                                         parent_to_range_)} :
       \E representations \in {IndexerRepresentations} :
         result' = Tup([i \in 1 .. Len(representations) |->
                          ProbabilityOf(sbn_parameters_copy, representations[i])])
  /\ last' = Called("CalculateSBNProbabilities", FALSE)
  /\ UNCHANGED <<alignment_, engine_, newick, tree_collection_, topology_counter_, indexer_,
                 rootsplits_, index_to_child_, parent_to_range_,
                 sbn_parameters_, taxon_names_, status>>

\* StringifyMap: the map with every key as its string.
StringifyMap(m) ==
  [str \in {BitsetToString(k) : k \in DOMAIN m} |->
     m[CHOOSE k \in DOMAIN m : BitsetToString(k) = str]]

\* SBNMaps::StringPCSSMapOf: parent string -> child string -> count.
StringPCSSMapOf(d) ==
  [str \in {BitsetToString(k) : k \in DOMAIN d} |->
     StringifyMap(d[CHOOSE k \in DOMAIN d : BitsetToString(k) = str])]

\* A SplitCounters that returns empty counters where PCSSCounterOf aborts.
SplitCountersWithoutAbort ==
  /\ status = "running"
  /\ \E counter \in {TopologyCounter(tree_collection_)} :
        IF PCSSCounterAborts(counter)
        THEN /\ result' = [rootsplits |-> <<>>, pcss |-> <<>>]
             /\ last' = Called("SplitCounters", FALSE)
        ELSE /\ result' = [rootsplits |-> StringifyMap(RootsplitCounterOf(counter)),
                           pcss |-> StringPCSSMapOf(PCSSCounterOf(counter))]
             /\ last' = Called("SplitCounters", FALSE)
  /\ UNCHANGED <<alignment_, engine_, newick, tree_collection_,
                 topology_counter_, indexer_, rootsplits_, index_to_child_,
                 parent_to_range_, sbn_parameters_, taxon_names_, status>>

\* SBNInstance::SplitCounters: the rootsplit and PCSS counters of the
\* collection, recomputed from scratch.
SplitCounters ==
  /\ status = "running"
  /\ \E counter \in {TopologyCounter(tree_collection_)} :
        IF PCSSCounterAborts(counter)
        THEN /\ status' = "aborted"
             /\ result' = <<>>
             /\ last' = Called("SplitCounters", TRUE)
        ELSE /\ status' = status
             /\ result' = [rootsplits |-> StringifyMap(RootsplitCounterOf(counter)),
                           pcss |-> StringPCSSMapOf(PCSSCounterOf(counter))]
             /\ last' = Called("SplitCounters", FALSE)
  /\ UNCHANGED <<alignment_, engine_, newick, tree_collection_, topology_counter_, indexer_,
                 rootsplits_, index_to_child_, parent_to_range_,
                 sbn_parameters_, taxon_names_>>

(*************************** sampling *************************************)
\* SBNInstance::CheckSBNMapsAvailable throws.
SBNMapsUnavailable ==
  \/ indexer_ = <<>> \/ index_to_child_ = <<>> \/ parent_to_range_ = <<>>
  \/ rootsplits_ = <<>> \/ taxon_names_ = <<>>

\* SampleIndex, the Assert on the range it is given.
ValidRange(range) == range[1] < range[2] /\ range[2] <= Len(sbn_parameters_)

\* sbn_parameters_.segment(start, n): n parameters from index start on.
Segment(start, n) == SubSeq(sbn_parameters_, start + 1, start + n)

\* std::discrete_distribution over the exponentiated, normalized segment:
\* every weight is positive, so every position 0 .. n-1 can be drawn.
DiscreteDistribution(sbn_parameters_subrange) ==
  0 .. (Len(sbn_parameters_subrange) - 1)

\* A SampleIndex that returns the position in the slice as it is drawn.
SampleIndexNoOffset(range) ==
  IF ~ValidRange(range) THEN {NoIndex}
  ELSE {IF d < range[2] THEN d ELSE NoIndex :
        d \in DiscreteDistribution(Segment(range[1], range[2] - range[1]))}

\* SBNInstance::SampleIndex: what a call can return, NoIndex standing for a
\* call that failed one of its two Asserts.
SampleIndex(range) ==
  IF ~ValidRange(range) THEN {NoIndex}
  ELSE {IF range[1] + d < range[2] THEN range[1] + d ELSE NoIndex :
        d \in DiscreteDistribution(Segment(range[1], range[2] - range[1]))}

\* Bitset::SingletonOption: the one set bit, or NoIndex.
SingletonOption(b) ==
  IF Count(b) = 1 THEN CHOOSE i \in 0 .. (Len(b) - 1) : b[i + 1] = 1 ELSE NoIndex

\* A SampleTopology(parent_subsplit) that draws the position in the
\* parent's block instead of the index.
RECURSIVE SampleTopologyOfPosition(_)
SampleTopologyOfPosition(parent_subsplit) ==
  LET process_subsplit(parent) ==
        IF SingletonOption(SplitChunk(parent, 1)) # NoIndex
        THEN {Leaf(SingletonOption(SplitChunk(parent, 1)))}
        ELSE IF parent \notin DOMAIN parent_to_range_ THEN {Thrown}
        ELSE UNION {IF child_index \in DOMAIN index_to_child_
                    THEN SampleTopologyOfPosition(index_to_child_[child_index])
                    ELSE {Thrown} :
                    child_index \in SampleIndexNoOffset(parent_to_range_[parent])}
      left == process_subsplit(parent_subsplit)
      right == process_subsplit(RotateSubsplit(parent_subsplit))
  IN {IF l = Thrown \/ r = Thrown THEN Thrown ELSE Join(<<l, r>>) :
      l \in left, r \in right}

\* SBNInstance::SampleTopology(const Bitset &parent_subsplit): the
\* topologies it can return, Thrown among them when a lookup or a
\* SampleIndex can throw.
RECURSIVE SampleTopologyOf(_)
SampleTopologyOf(parent_subsplit) ==
  LET process_subsplit(parent) ==
        IF SingletonOption(SplitChunk(parent, 1)) # NoIndex
        THEN {Leaf(SingletonOption(SplitChunk(parent, 1)))}
        ELSE IF parent \notin DOMAIN parent_to_range_ THEN {Thrown}
        ELSE UNION {IF child_index \in DOMAIN index_to_child_
                    THEN SampleTopologyOf(index_to_child_[child_index])
                    ELSE {Thrown} :
                    child_index \in SampleIndex(parent_to_range_[parent])}
      left == process_subsplit(parent_subsplit)
      right == process_subsplit(RotateSubsplit(parent_subsplit))
  IN {IF l = Thrown \/ r = Thrown THEN Thrown ELSE Join(<<l, r>>) :
      l \in left, r \in right}

\* Node::Deroot: the root child with descendants (the second unless it is
\* a leaf) gives its children to the root.
Deroot(n) ==
  LET deroot(other_child, has_descendants) ==
        NodeOf(has_descendants.children \o <<other_child>>, has_descendants.index)
  IN IF LeafCount(n.children[2]) = 1
     THEN deroot(n.children[2], n.children[1])
     ELSE deroot(n.children[1], n.children[2])

\* A SampleTopology that never calls Deroot.
SampleTopologyKeepsRoot(rooted) ==
  UNION {
    IF rootsplit_index = NoIndex THEN {Thrown}
    ELSE {IF t = Thrown THEN Thrown ELSE Reindex(t) :
          t \in SampleTopologyOf(rootsplits_[rootsplit_index + 1]
                                 \o Flip(rootsplits_[rootsplit_index + 1]))} :
    rootsplit_index \in SampleIndex(<<0, Len(rootsplits_)>>)}

\* SBNInstance::SampleTopology(bool rooted): the topologies it can return,
\* Thrown when SampleIndex or a lookup threw.
SampleTopology(rooted) ==
  UNION {
    IF rootsplit_index = NoIndex THEN {Thrown}
    ELSE {IF t = Thrown THEN Thrown
          ELSE Reindex(IF rooted THEN t ELSE Deroot(t)) :
          t \in SampleTopologyOf(rootsplits_[rootsplit_index + 1]
                                 \o Flip(rootsplits_[rootsplit_index + 1]))} :
    rootsplit_index \in SampleIndex(<<0, Len(rootsplits_)>>)}

\* A call of SampleIndex(range); result holds the range and what the call
\* returned.
CallSampleIndex(range) ==
  /\ status = "running"
  /\ \E index \in SampleIndex(range) :
       /\ result' = [range |-> range, index |-> index]
       /\ last' = Called("SampleIndex", index = NoIndex)
  /\ UNCHANGED <<alignment_, engine_, newick, tree_collection_, topology_counter_, indexer_,
                 rootsplits_, index_to_child_, parent_to_range_,
                 sbn_parameters_, taxon_names_, status>>

\* A call of SampleTopology(rooted); result holds the flag and the topology
\* returned.
CallSampleTopology(rooted) ==
  /\ status = "running"
  /\ \E topology \in SampleTopology(rooted) :
       /\ result' = [rooted |-> rooted, topology |-> topology]
       /\ last' = Called("SampleTopology", topology = Thrown)
  /\ UNCHANGED <<alignment_, engine_, newick, tree_collection_, topology_counter_, indexer_,
                 rootsplits_, index_to_child_, parent_to_range_,
                 sbn_parameters_, taxon_names_, status>>

\* The trees pushed back before the first throw.
RECURSIVE UntilThrown(_)
UntilThrown(ts) ==
  IF ts = <<>> \/ Head(ts) = Thrown THEN <<>>
  ELSE <<Head(ts)>> \o UntilThrown(Tail(ts))

\* SBNInstance::SampleTrees(count).
SampleTrees(count) ==
  /\ status = "running"
  /\ IF SBNMapsUnavailable
     THEN /\ last' = Called("SampleTrees", TRUE)
          /\ UNCHANGED tree_collection_
     ELSE \E sampled \in [1 .. count -> SampleTopology(FALSE)] :
            /\ tree_collection_' = UntilThrown(sampled)
            /\ last' = Called("SampleTrees", \E i \in 1 .. count : sampled[i] = Thrown)
  /\ newick' = IF SBNMapsUnavailable THEN newick ELSE <<>>
  /\ result' = <<>>
  /\ UNCHANGED <<alignment_, engine_, topology_counter_, indexer_, rootsplits_, index_to_child_,
                 parent_to_range_, sbn_parameters_, taxon_names_, status>>

(*************************** specifications *******************************)
\* The Newick trees of the topologies on the taxa S: every topology in
\* stored order and in reversed order, or only the topologies whose root is
\* the node next to taxon 0 (one for every unrooted tree), in the orders rs.
NewickTrees(S) ==
  {Newick(t, r) : t \in TrifurcatingTopologies(S), r \in BOOLEAN}
NextToTaxon0(S, rs) ==
  {Newick(t, r) : t \in {u \in TrifurcatingTopologies(S) : u.children[1].index = 0},
                  r \in rs}

\* The files of the reload specification: up to MaxFileTrees trees rooted
\* next to taxon 0, written in stored order.
Files == UNION {[1 .. k -> NextToTaxon0(FileTaxa, {FALSE})] : k \in 0 .. MaxFileTrees}

\* The files of the build specification: no tree, any one tree, or up to
\* MaxTrees trees rooted next to taxon 0 of which the first is written in
\* stored order.
BuildFiles ==
  {<<>>} \cup {<<t>> : t \in NewickTrees(Taxa)}
  \cup UNION {{f \in [1 .. k -> NextToTaxon0(Taxa, BOOLEAN)] :
                 f[1] \in NextToTaxon0(Taxa, {FALSE})} :
               k \in 2 .. MaxTrees}

\* An instance used over its whole life: files are read one after another.
Next ==
  \/ \E file \in Files : ReadNewickFile(file)
  \/ ProcessLoadedTrees
  \/ TrainSimpleAverage
  \/ \E count \in 1 .. MaxFileTrees : SampleTrees(count)
  \/ MakeIndexerRepresentations
  \/ CalculateSBNProbabilities

Spec == Init /\ [][Next]_vars

\* An instance that has read one file of up to MaxTrees trees.
InitBuild ==
  \E file \in BuildFiles :
    /\ newick = file
    /\ tree_collection_ = ParseFile(file)
    /\ topology_counter_ = <<>>
    /\ indexer_ = <<>>
    /\ rootsplits_ = <<>>
    /\ index_to_child_ = <<>>
    /\ parent_to_range_ = <<>>
    /\ sbn_parameters_ = <<>>
    /\ taxon_names_ = <<>>
    /\ alignment_ = 0
    /\ engine_ = "nullptr"
    /\ last = Called("ReadNewickFile", FALSE)
    /\ result = <<>>
    /\ status = "running"

NextBuild ==
  \/ ProcessLoadedTrees
  \/ MakeIndexerRepresentations
  \/ SplitCounters

SpecBuild == InitBuild /\ [][NextBuild]_vars

\* The ranges SampleIndex is called with: the rootsplit block, the block of
\* every parent, and empty, reversed and out-of-bounds ranges around them.
SampleRanges ==
  {parent_to_range_[parent] : parent \in DOMAIN parent_to_range_}
  \cup {<<start, end>> :
          start, end \in {0, Len(rootsplits_), Len(sbn_parameters_) + 1}}

\* An instance that has read one file of up to MaxFileTrees trees.
InitSample ==
  \E file \in Files :
    /\ newick = file
    /\ tree_collection_ = ParseFile(file)
    /\ topology_counter_ = <<>>
    /\ indexer_ = <<>>
    /\ rootsplits_ = <<>>
    /\ index_to_child_ = <<>>
    /\ parent_to_range_ = <<>>
    /\ sbn_parameters_ = <<>>
    /\ taxon_names_ = <<>>
    /\ alignment_ = 0
    /\ engine_ = "nullptr"
    /\ last = Called("ReadNewickFile", FALSE)
    /\ result = <<>>
    /\ status = "running"

\* Training and sampling on the instance, in any order.
NextSample ==
  \/ ProcessLoadedTrees
  \/ TrainSimpleAverage
  \/ \E range \in SampleRanges : CallSampleIndex(range)
  \/ \E rooted \in BOOLEAN : CallSampleTopology(rooted)

SpecSample == InitSample /\ [][NextSample]_vars

(*************************** expectation-maximization *********************)
\* The values of alpha, max_iter and score_epsilon the runs are started
\* with.
Alphas == {0, 1}
MaxIters == 0 .. MaxIter
ScoreEpsilons == {0, 1}

\* The total log-likelihood an iteration reports.  It is a double that
\* depends on the parameters; here an iteration may report any score.
Scores == 0 .. MaxScore

\* The M-step: every parameter re-estimated within its block and stored in
\* log space.  The estimates are reals that the model does not compute: the
\* entry -k stands for the log of the smoothed estimate after k iterations
\* (a log of a probability, hence not positive), which keeps the vector
\* apart from the counts and the neutral values of the other operations.
MStep(sbn_parameters, iteration) ==
  Tup([i \in 1 .. Len(sbn_parameters) |-> -iteration])

\* The stopping rule of the loop on the score: the improvement of the last
\* iteration over the one before it is below score_epsilon.
ScoreConverged(score_history, score_epsilon) ==
  /\ Len(score_history) >= 2
  /\ score_history[Len(score_history)] - score_history[Len(score_history) - 1]
       < score_epsilon

\* The loop of SBNProbability::ExpectationMaximization is over: max_iter
\* iterations were done or the score converged.
EMDone(run) ==
  \/ Len(run.score_history) >= run.max_iter
  \/ ScoreConverged(run.score_history, run.score_epsilon)

\* SBNProbability::ExpectationMaximization, on entry: its parameters and an
\* empty score history.
ExpectationMaximization(counter, alpha, max_iter, score_epsilon) ==
  [counter |-> counter, alpha |-> alpha,
   max_iter |-> max_iter, score_epsilon |-> score_epsilon,
   score_history |-> <<>>]

\* A TrainExpectationMaximization that asks for one more iteration than it
\* was called with.
TrainExpectationMaximizationOneMore(alpha, max_iter, score_epsilon) ==
  /\ status = "running"
  /\ result' = [alpha |-> alpha, max_iter |-> max_iter,
                score_epsilon |-> score_epsilon,
                run |-> ExpectationMaximization(
                          IndexerRepresentationCounterOf(
                            indexer_, topology_counter_, Len(sbn_parameters_)),
                          alpha, max_iter + 1, score_epsilon)]
  /\ status' = "training"
  /\ last' = Called("TrainExpectationMaximization", FALSE)
  /\ UNCHANGED <<alignment_, engine_, newick, tree_collection_, topology_counter_, indexer_,
                 rootsplits_, index_to_child_, parent_to_range_,
                 sbn_parameters_, taxon_names_>>

\* SBNInstance::TrainExpectationMaximization, the call: the counter of
\* representations is built with the length of sbn_parameters_ as sentinel
\* and SBNProbability::ExpectationMaximization is entered with it and with
\* alpha, max_iter and score_epsilon.  result holds the arguments of the
\* call and the run of the loop.
TrainExpectationMaximization(alpha, max_iter, score_epsilon) ==
  /\ status = "running"
  /\ result' = [alpha |-> alpha, max_iter |-> max_iter,
                score_epsilon |-> score_epsilon,
                run |-> ExpectationMaximization(
                          IndexerRepresentationCounterOf(
                            indexer_, topology_counter_, Len(sbn_parameters_)),
                          alpha, max_iter, score_epsilon)]
  /\ status' = "training"
  /\ last' = Called("TrainExpectationMaximization", FALSE)
  /\ UNCHANGED <<alignment_, engine_, newick, tree_collection_, topology_counter_, indexer_,
                 rootsplits_, index_to_child_, parent_to_range_,
                 sbn_parameters_, taxon_names_>>

\* One iteration of SBNProbability::ExpectationMaximization: E-step, M-step
\* and score.
EMIteration ==
  /\ status = "training"
  /\ ~EMDone(result.run)
  /\ \E score \in Scores :
       result' = [result EXCEPT !.run.score_history = Append(@, score)]
  /\ sbn_parameters_' = MStep(sbn_parameters_, Len(result.run.score_history) + 1)
  /\ UNCHANGED <<alignment_, engine_, newick, tree_collection_, topology_counter_, indexer_,
                 rootsplits_, index_to_child_, parent_to_range_, taxon_names_,
                 status, last>>

\* SBNProbability::ExpectationMaximization and TrainExpectationMaximization
\* return.
EMReturn ==
  /\ status = "training"
  /\ EMDone(result.run)
  /\ status' = "running"
  /\ UNCHANGED <<alignment_, engine_, newick, tree_collection_, topology_counter_, indexer_,
                 rootsplits_, index_to_child_, parent_to_range_,
                 sbn_parameters_, taxon_names_, last, result>>

\* An instance that has read one file, on which the maps are built and
\* expectation-maximization is run, in any order.
NextEM ==
  \/ ProcessLoadedTrees
  \/ \E alpha \in Alphas : \E max_iter \in MaxIters :
       \E score_epsilon \in ScoreEpsilons :
         TrainExpectationMaximization(alpha, max_iter, score_epsilon)
  \/ EMIteration
  \/ EMReturn

SpecEM == InitSample /\ [][NextEM]_vars

\* The same with a loop that goes on: an iteration that can be done is
\* done, and a loop that is over returns.
SpecEMLive == SpecEM /\ WF_vars(EMIteration) /\ WF_vars(EMReturn)

(*************************** readers **************************************)
\* A call of SBNInstance::PrettyIndexer.
CallPrettyIndexer ==
  /\ status = "running"
  /\ result' = PrettyIndexer
  /\ last' = Called("PrettyIndexer", FALSE)
  /\ UNCHANGED <<alignment_, engine_, newick, tree_collection_, topology_counter_, indexer_,
                 rootsplits_, index_to_child_, parent_to_range_,
                 sbn_parameters_, taxon_names_, status>>

\* SBNInstance::StringReversedIndexer: the loop of PrettyIndexer, on a
\* vector of the same size.
StringReversedIndexer ==
  /\ status = "running"
  /\ result' = PrettyIndexer
  /\ last' = Called("StringReversedIndexer", FALSE)
  /\ UNCHANGED <<alignment_, engine_, newick, tree_collection_, topology_counter_, indexer_,
                 rootsplits_, index_to_child_, parent_to_range_,
                 sbn_parameters_, taxon_names_, status>>

\* SBNInstance::GetIndexers: the indexer and the parent-to-range map with
\* their keys as strings, the latter with the range of the rootsplits
\* inserted under "rootsplit".
GetIndexers ==
  /\ status = "running"
  /\ result' = [str_indexer |-> StringifyMap(indexer_),
                str_parent_to_range |->
                  StringifyMap(parent_to_range_)
                  @@ (<<"r", "o", "o", "t", "s", "p", "l", "i", "t">>
                        :> <<0, Len(rootsplits_)>>)]
  /\ last' = Called("GetIndexers", FALSE)
  /\ UNCHANGED <<alignment_, engine_, newick, tree_collection_, topology_counter_, indexer_,
                 rootsplits_, index_to_child_, parent_to_range_,
                 sbn_parameters_, taxon_names_, status>>

\* An instance that has read one file, on which the maps are built, the
\* parameters trained and every reading operation called, in any order.
NextReaders ==
  \/ ProcessLoadedTrees
  \/ TrainSimpleAverage
  \/ \E range \in SampleRanges : CallSampleIndex(range)
  \/ \E rooted \in BOOLEAN : CallSampleTopology(rooted)
  \/ CalculateSBNProbabilities
  \/ MakeIndexerRepresentations
  \/ CallPrettyIndexer
  \/ StringReversedIndexer
  \/ GetIndexers

SpecReaders == InitSample /\ [][NextReaders]_vars

(*************************** nodes ****************************************)
\* The node specification keeps in tree_collection_ the nodes that exist
\* and are not yet children of another node.

\* The number of nodes of the trees of a sequence of nodes.
RECURSIVE NodeCount(_)
NodeCount(cs) ==
  IF cs = <<>> THEN 0
  ELSE 1 + NodeCount(Head(cs).children) + NodeCount(Tail(cs))

\* The sequences of distinct positions of a sequence of length k, the
\* empty one included: the children a Join can be given, in every order.
RECURSIVE Arrangements(_)
Arrangements(positions) ==
  {<<>>} \cup UNION {{<<i>> \o rest : rest \in Arrangements(positions \ {i})} :
                      i \in positions}

\* A call of Node::Join(children, index) on nodes that exist; the new node
\* takes the place of its children.
CallJoin(order, index) ==
  /\ status = "running"
  /\ NodeCount(tree_collection_) < MaxNodes
  /\ \E children \in {Tup([i \in 1 .. Len(order) |-> tree_collection_[order[i]]])} :
       IF JoinAborts(children)
       THEN /\ status' = "aborted"
            /\ result' = [children |-> children]
            /\ last' = Called("Join", TRUE)
            /\ UNCHANGED tree_collection_
       ELSE /\ status' = status
            /\ result' = [children |-> children, node |-> NodeOf(children, index)]
            /\ last' = Called("Join", FALSE)
            /\ tree_collection_' =
                 LET kept == SelectSeq(Tup([i \in 1 .. Len(tree_collection_) |-> i]),
                                       LAMBDA i : \A j \in DOMAIN order : order[j] # i)
                 IN Tup([k \in 1 .. Len(kept) |-> tree_collection_[kept[k]]])
                    \o <<NodeOf(children, index)>>
  /\ UNCHANGED <<alignment_, engine_, newick, topology_counter_, indexer_, rootsplits_,
                 index_to_child_, parent_to_range_, sbn_parameters_,
                 taxon_names_>>

\* A call of Node::PreOrder, PostOrder or LevelOrder on a node that exists,
\* with an f that records the node it is called on.
CallPreOrder(i) ==
  /\ status = "running"
  /\ result' = [node |-> tree_collection_[i], visited |-> PreOrder(tree_collection_[i])]
  /\ last' = Called("PreOrder", FALSE)
  /\ UNCHANGED <<alignment_, engine_, newick, tree_collection_, topology_counter_, indexer_,
                 rootsplits_, index_to_child_, parent_to_range_,
                 sbn_parameters_, taxon_names_, status>>

CallPostOrder(i) ==
  /\ status = "running"
  /\ result' = [node |-> tree_collection_[i], visited |-> PostOrder(tree_collection_[i])]
  /\ last' = Called("PostOrder", FALSE)
  /\ UNCHANGED <<alignment_, engine_, newick, tree_collection_, topology_counter_, indexer_,
                 rootsplits_, index_to_child_, parent_to_range_,
                 sbn_parameters_, taxon_names_, status>>

CallLevelOrder(i) ==
  /\ status = "running"
  /\ result' = [node |-> tree_collection_[i], visited |-> LevelOrder(tree_collection_[i])]
  /\ last' = Called("LevelOrder", FALSE)
  /\ UNCHANGED <<alignment_, engine_, newick, tree_collection_, topology_counter_, indexer_,
                 rootsplits_, index_to_child_, parent_to_range_,
                 sbn_parameters_, taxon_names_, status>>

\* A call of Node::Reindex on a node that exists.
CallReindex(i) ==
  /\ status = "running"
  /\ IF ReindexAborts(tree_collection_[i])
     THEN /\ status' = "aborted"
          /\ result' = [node |-> tree_collection_[i]]
          /\ last' = Called("Reindex", TRUE)
          /\ UNCHANGED tree_collection_
     ELSE /\ status' = status
          /\ result' = [node |-> tree_collection_[i], at |-> i,
                        tag_index_map |-> TagIndexMap(tree_collection_[i])]
          /\ last' = Called("Reindex", FALSE)
          /\ tree_collection_' =
               [tree_collection_ EXCEPT ![i] = Reindex(tree_collection_[i])]
  /\ UNCHANGED <<alignment_, engine_, newick, topology_counter_, indexer_, rootsplits_,
                 index_to_child_, parent_to_range_, sbn_parameters_,
                 taxon_names_>>

\* A call of Node::IndexVector on a node that exists.
CallIndexVector(i) ==
  /\ status = "running"
  /\ IF IndexVectorAborts(tree_collection_[i])
     THEN /\ status' = "aborted"
          /\ result' = [node |-> tree_collection_[i]]
          /\ last' = Called("IndexVector", TRUE)
     ELSE /\ status' = status
          /\ result' = [node |-> tree_collection_[i],
                        indices |-> IndexVector(tree_collection_[i])]
          /\ last' = Called("IndexVector", FALSE)
  /\ UNCHANGED <<alignment_, engine_, newick, tree_collection_, topology_counter_, indexer_,
                 rootsplits_, index_to_child_, parent_to_range_,
                 sbn_parameters_, taxon_names_>>

\* The vectors OfIndexVector is called with: the vector IndexVector has just
\* returned, and every vector of at most two entries.
IndexVectors ==
  (IF last.op = "IndexVector" /\ ~last.failed THEN {result.indices} ELSE {})
  \cup UNION {[1 .. k -> 0 .. k] : k \in 0 .. 2}

\* A call of Node::OfIndexVector; node is the node the vector was taken
\* from, when it was.
CallOfIndexVector(indices) ==
  /\ status = "running"
  /\ \E topology \in {OfIndexVector(indices)} :
       /\ status' = IF topology = Thrown THEN "aborted" ELSE status
       /\ result' = [node |-> IF last.op = "IndexVector" /\ ~last.failed
                                 /\ indices = result.indices
                              THEN result.node ELSE Thrown,
                     indices |-> indices, topology |-> topology]
       /\ last' = Called("OfIndexVector", topology = Thrown)
  /\ UNCHANGED <<alignment_, engine_, newick, tree_collection_, topology_counter_, indexer_,
                 rootsplits_, index_to_child_, parent_to_range_,
                 sbn_parameters_, taxon_names_>>

\* NumNodeLeaves leaves have been made, with any leaf ids.
InitNode ==
  \E ids \in [1 .. NumNodeLeaves -> 0 .. (NumNodeLeaves - 1)] :
    /\ newick = <<>>
    /\ tree_collection_ = Tup([i \in 1 .. NumNodeLeaves |-> Leaf(ids[i])])
    /\ topology_counter_ = <<>>
    /\ indexer_ = <<>>
    /\ rootsplits_ = <<>>
    /\ index_to_child_ = <<>>
    /\ parent_to_range_ = <<>>
    /\ sbn_parameters_ = <<>>
    /\ taxon_names_ = <<>>
    /\ alignment_ = 0
    /\ engine_ = "nullptr"
    /\ last = Called("Leaf", FALSE)
    /\ result = <<>>
    /\ status = "running"

\* The member functions of Node on the nodes that exist, in any order.
NextNode ==
  \/ \E order \in Arrangements(DOMAIN tree_collection_) :
       \E index \in {NoIndex, 1} : CallJoin(order, index)
  \/ \E i \in DOMAIN tree_collection_ : CallPreOrder(i)
  \/ \E i \in DOMAIN tree_collection_ : CallPostOrder(i)
  \/ \E i \in DOMAIN tree_collection_ : CallLevelOrder(i)
  \/ \E i \in DOMAIN tree_collection_ : CallReindex(i)
  \/ \E i \in DOMAIN tree_collection_ : CallIndexVector(i)
  \/ \E indices \in IndexVectors : CallOfIndexVector(indices)

SpecNode == InitNode /\ [][NextNode]_vars

(*************************** phylogenetic likelihood ***********************)
\* Node::Newick without branch lengths and labels: the characters of
\* NewickAux and the closing ";"; to_string gives the decimal digits of a
\* leaf id.
RECURSIVE NewickAux(_)
NewickAux(n) ==
  IF IsLeaf(n)
  THEN LET RECURSIVE to_string(_)
           to_string(k) ==
             LET digit == <<"0", "1", "2", "3", "4", "5", "6", "7", "8", "9">>[(k % 10) + 1]
             IN IF k < 10 THEN <<digit>> ELSE to_string(k \div 10) \o <<digit>>
       IN to_string(MaxLeafID(n))
  ELSE LET RECURSIVE Joined(_)
           Joined(k) ==
             IF k = 0 THEN <<>>
             ELSE Joined(k - 1) \o (IF k = 1 THEN <<>> ELSE <<",">>)
                  \o NewickAux(n.children[k])
       IN <<"(">> \o Joined(Len(n.children)) \o <<")">>
NewickString(n) == NewickAux(n) \o <<";">>

\* A Detrifurcate that joins the first two subtrees of the root.
DetrifurcateFirstTwo(n) ==
  NodeOf(<<NodeOf(<<n.children[1], n.children[2]>>, n.index), n.children[3]>>,
         n.index + 1)

\* UnrootedTree::Detrifurcate on the topology: of the root (s0, s1, s2) a
\* new topology (s0, (s1, s2)), the new node taking the id of the old root.
Detrifurcate(n) ==
  NodeOf(<<n.children[1], NodeOf(<<n.children[2], n.children[3]>>, n.index)>>,
         n.index + 1)

\* A call of Detrifurcate on tree i of the collection, which has three
\* children at the root.
CallDetrifurcate(i) ==
  /\ status = "running"
  /\ Len(tree_collection_[i].children) = 3
  /\ result' = [at |-> i, original |-> tree_collection_[i],
                newick |-> NewickString(tree_collection_[i]),
                tree |-> Detrifurcate(tree_collection_[i])]
  /\ last' = Called("Detrifurcate", FALSE)
  /\ UNCHANGED <<alignment_, engine_, newick, tree_collection_,
                 topology_counter_, indexer_, rootsplits_, index_to_child_,
                 parent_to_range_, sbn_parameters_, taxon_names_, status>>

\* SBNInstance::ReadFastaFile: the alignment of the file replaces alignment_.
ReadFastaFile(sequence_count) ==
  /\ status = "running"
  /\ alignment_' = sequence_count
  /\ last' = Called("ReadFastaFile", FALSE)
  /\ result' = <<>>
  /\ UNCHANGED <<engine_, newick, tree_collection_, topology_counter_,
                 indexer_, rootsplits_, index_to_child_, parent_to_range_,
                 sbn_parameters_, taxon_names_, status>>

\* SBNInstance::CheckSequencesAndTreesLoaded: the message it fails with, or
\* "" when it returns.
CheckSequencesAndTreesLoaded ==
  IF alignment_ = 0 THEN "Load an alignment"
  ELSE IF Len(tree_collection_) = 0 THEN "Load some trees"
  ELSE ""

\* SBNInstance::ResizePhyloModelParams fails: no row to resize to. The
\* std::optional is a sequence of at most one value.
ResizePhyloModelParamsFails(tree_count_option) ==
  (IF tree_count_option = <<>> THEN Len(tree_collection_)
   ELSE tree_count_option[1]) = 0

\* The loop of PrepareForPhyloLikelihood over the trees, without a clock.
\* trees_.at(i) is given the raw pointer of the temporary that Detrifurcate
\* returned, which deletes its tree at the end of the statement: the entry
\* dangles. Reading it later finds the detrifurcated tree, or the tree a
\* later iteration put into the freed storage, or the process crashes.
\* The loop stops at the first tree whose root has neither two nor three
\* children.
DetrifurcateLoop(trees) ==
  LET bad == {i \in DOMAIN trees : Len(trees[i].children) \notin {2, 3}}
      stop == IF bad = {} THEN Len(trees) + 1
              ELSE CHOOSE i \in bad : \A j \in bad : i <= j
      replaced == {i \in 1 .. (stop - 1) : Len(trees[i].children) = 3}
      dangling(i) == {Detrifurcate(trees[j]) : j \in {k \in replaced : k >= i}}
  IN [failed |-> bad # {},
      undefined |-> replaced # {},
      trees |-> {f \in [DOMAIN trees -> {trees[i] : i \in DOMAIN trees}
                                         \cup dangling(1)] :
                   \A i \in DOMAIN trees :
                     IF i \in replaced THEN f[i] \in dangling(i)
                     ELSE f[i] = trees[i]}]

\* SBNInstance::PrepareForPhyloLikelihood. The SitePattern constructor and
\* the Engine constructor are taken to return; dates_readable says whether
\* ParseDates finds a date on every taxon name or on none.
PrepareForPhyloLikelihood(clock, tree_count_option, dates_readable) ==
  /\ status = "running"
  /\ IF CheckSequencesAndTreesLoaded # ""
     THEN /\ last' = Called("PrepareForPhyloLikelihood", TRUE)
          /\ result' = [what |-> CheckSequencesAndTreesLoaded]
          /\ UNCHANGED <<engine_, tree_collection_, status>>
     ELSE /\ engine_' = "engine"
          /\ IF ResizePhyloModelParamsFails(tree_count_option)
             THEN /\ last' = Called("PrepareForPhyloLikelihood", TRUE)
                  /\ result' = [what |-> "Please add trees"]
                  /\ UNCHANGED <<tree_collection_, status>>
             ELSE IF clock
             THEN /\ last' = Called("PrepareForPhyloLikelihood", ~dates_readable)
                  /\ result' = IF dates_readable THEN <<>>
                               ELSE [what |-> "Cannot read dates from tree file."]
                  /\ UNCHANGED <<tree_collection_, status>>
             ELSE \E loop \in {DetrifurcateLoop(tree_collection_)} :
                    /\ last' = Called("PrepareForPhyloLikelihood", loop.failed)
                    /\ result' = IF loop.failed
                                 THEN [what |-> "Tree likelihood calculations"]
                                 ELSE <<>>
                    /\ \/ /\ tree_collection_' \in loop.trees
                          /\ UNCHANGED status
                       \/ /\ loop.undefined
                          /\ status' = "aborted"
                          /\ UNCHANGED tree_collection_
  /\ UNCHANGED <<alignment_, newick, topology_counter_, indexer_, rootsplits_,
                 index_to_child_, parent_to_range_, sbn_parameters_,
                 taxon_names_>>

\* A GetEngine that hands out the null pointer.
GetEngineNeverFails == FALSE

\* SBNInstance::GetEngine throws.
GetEngineFails == engine_ = "nullptr"

\* A call that asks the engine: it throws when GetEngine does, and what the
\* engine computes is not part of the model.
CallEngine(op) ==
  /\ status = "running"
  /\ last' = Called(op, GetEngineFails)
  /\ result' = IF GetEngineFails THEN [what |-> "Engine not available"] ELSE <<>>
  /\ UNCHANGED <<alignment_, engine_, newick, tree_collection_,
                 topology_counter_, indexer_, rootsplits_, index_to_child_,
                 parent_to_range_, sbn_parameters_, taxon_names_, status>>

\* SBNInstance::GetPhyloModelParamBlockMap, LogLikelihoods, BranchGradients.
GetPhyloModelParamBlockMap == CallEngine("GetPhyloModelParamBlockMap")
LogLikelihoods == CallEngine("LogLikelihoods")
BranchGradients == CallEngine("BranchGradients")

\* An instance that reads trees and alignments and prepares for and asks
\* for likelihoods, in any order. The files are those of the reload
\* specification, a rooted tree, or a tree with every taxon at the root.
NextLikelihood ==
  \/ \E file \in Files
               \cup {<<Newick(t, FALSE)>> : t \in BinaryTopologies(FileTaxa)}
               \cup {<<Newick(Join(Tup([i \in 1 .. NumFileTaxa |-> Leaf(i - 1)])),
                               FALSE)>>} :
       ReadNewickFile(file)
  \/ \E sequence_count \in {0, NumFileTaxa} : ReadFastaFile(sequence_count)
  \/ \E clock, dates_readable \in BOOLEAN :
       \E tree_count_option \in {<<>>, <<0>>, <<1>>} :
         PrepareForPhyloLikelihood(clock, tree_count_option, dates_readable)
  \/ GetPhyloModelParamBlockMap
  \/ LogLikelihoods
  \/ BranchGradients
  \/ \E i \in DOMAIN tree_collection_ : CallDetrifurcate(i)
  \/ SplitCounters

SpecLikelihood == Init /\ [][NextLikelihood]_vars

(*************************** properties ***********************************)
\* ProcessLoadedTrees has built the maps from a collection with trees.
Built == status = "running" /\ topology_counter_ # <<>>

\* The index i lies in the half-open range.
InRange(i, range) == range[1] <= i /\ i < range[2]

NoRepeat(f) == \A i, j \in DOMAIN f : i # j => f[i] # f[j]

\* Every index of every rooted view of the representation is below M.
InSample(representation, M) ==
  \A v \in DOMAIN representation :
    \A j \in DOMAIN representation[v] : representation[v][j] < M

\* The taxa below a node.
RECURSIVE LeavesBelow(_)
LeavesBelow(n) ==
  IF IsLeaf(n) THEN {MaxLeafID(n)}
  ELSE UNION {LeavesBelow(n.children[i]) : i \in 1 .. Len(n.children)}

\* The node of index k at or below n.
RECURSIVE NodeOfIndex(_, _)
NodeOfIndex(n, k) ==
  IF n.index = k THEN n
  ELSE NodeOfIndex(n.children[CHOOSE i \in 1 .. Len(n.children) :
                                HasIndex(n.children[i], k)], k)

\* The minorized split of every node below the root of t, in pre-order,
\* computed from the taxa below the node.
SplitsOf(t) ==
  LET nodes == PreOrderAll(t.children)
  IN Tup([i \in 1 .. Len(nodes) |->
            Minorize(BitsetOf(LeavesBelow(nodes[i]), LeafCount(t)))])

\* The <<parent, child>> of every call PCSSPreOrder makes on t, in order.
PairsOf(t) ==
  LET calls == PCSSPreOrder(t)
      tag_to_bitset == TagBitsetMapOf(t)
  IN Tup([i \in 1 .. Len(calls) |->
            <<PCSSParentOf(calls[i], tag_to_bitset, LeafCount(t)),
              PCSSChildOf(calls[i], tag_to_bitset)>>])

\* The <<parent, child>> pairs a PCSS counter holds.
PairsIn(pcss_dict) ==
  UNION {{<<p, c>> : c \in DOMAIN pcss_dict[p]} : p \in DOMAIN pcss_dict}

\* The same unrooted tree with the internal node t.children[i] as the
\* trifurcating root: its two children and the rest of the tree.
RerootAt(t, i) ==
  LET others == SelectSeq(t.children, LAMBDA c : c # t.children[i])
  IN Reindex(Join(t.children[i].children \o <<Join(others)>>))

\* The representation of the unrooted topology t has 2n-3 rooted views;
\* view k starts with the index of the rootsplit of the edge above node k
\* (M when indexer_ lacks it), goes on with n-2 PCSS indices, and is the
\* rooted representation of t rooted on that edge.  Two of the PCSS indices
\* of a view are never equal, except, unless strict, when they are M.
ViewsOf(t, representation, M, strict) ==
  LET n == LeafCount(t)
  IN /\ Len(representation) = 2 * n - 3
     /\ \A k \in DOMAIN representation :
          \A view \in {representation[k]} :
            /\ Len(view) = 1 + (n - 2)
            /\ view[1] = AtWithDefault(
                           indexer_,
                           Minorize(BitsetOf(LeavesBelow(NodeOfIndex(t, k - 1)), n)),
                           M)
            /\ \A a, b \in 2 .. Len(view) :
                 (a # b /\ view[a] = view[b]) => (~strict /\ view[a] = M)
            /\ view = RootedIndexerRepresentationOf(
                        indexer_, RootedAt(t, k - 1, <<>>), M)

\* The call with its two children exchanged.
Swapped(call) ==
  [call EXCEPT !.child0 = call.child1, !.child0_direction = call.child1_direction,
               !.child1 = call.child0, !.child1_direction = call.child0_direction]

\* The clades of a topology: the taxa below each of its nodes.
CladesOf(t) == {LeavesBelow(x) : x \in Range(PreOrder(t))}

\* The clades of a Newick tree as written.
RECURSIVE NewickLeaves(_)
NewickLeaves(t) ==
  IF t.sub = <<>> THEN {t.leaf}
  ELSE UNION {NewickLeaves(t.sub[i]) : i \in 1 .. Len(t.sub)}
RECURSIVE NewickClades(_)
NewickClades(t) ==
  {NewickLeaves(t)} \cup UNION {NewickClades(t.sub[i]) : i \in 1 .. Len(t.sub)}

\* A collection with the given topology counter.
RECURSIVE TreesOf(_, _)
TreesOf(counter, todo) ==
  IF todo = {} THEN <<>>
  ELSE LET t == CHOOSE x \in todo : TRUE
       IN [i \in 1 .. counter[t] |-> t] \o TreesOf(counter, todo \ {t})

\* The maps a new instance builds from the trees.
MapsOf(trees) == ProcessLoadedTreesMaps(EmptyMaps, trees)

\* C1: after ProcessLoadedTrees on a non-empty set of root-trifurcating
\* topologies, with R rootsplits and M parameters, the ranges of
\* parent_to_range_ are non-empty half-open intervals inside [R, M),
\* pairwise disjoint, every index of [R, M) lies in exactly one of them and
\* no index below R in any, and the indexer keys with an index in a
\* parent's range are exactly parent + child for the children counted
\* under that parent.
C1_RangesPartition ==
  Built =>
    \A pcss_dict \in {PCSSCounterOf(topology_counter_)} :
      LET R == Len(rootsplits_)
          M == Len(sbn_parameters_)
          parents == DOMAIN parent_to_range_
      IN /\ \A p \in parents :
              /\ parent_to_range_[p][1] < parent_to_range_[p][2]
              /\ R <= parent_to_range_[p][1]
              /\ parent_to_range_[p][2] <= M
         /\ \A p, q \in parents :
              p # q => \/ parent_to_range_[p][2] <= parent_to_range_[q][1]
                       \/ parent_to_range_[q][2] <= parent_to_range_[p][1]
         /\ \A i \in 0 .. (M - 1) :
              Cardinality({p \in parents : InRange(i, parent_to_range_[p])})
                = IF i < R THEN 0 ELSE 1
         /\ parents = DOMAIN pcss_dict
         /\ \A p \in parents :
              {k \in DOMAIN indexer_ : InRange(indexer_[k], parent_to_range_[p])}
                = {p \o c : c \in DOMAIN pcss_dict[p]}

\* Two topologies were processed and some parent has several children.
C1_Witness ==
  /\ Built
  /\ last.op = "ProcessLoadedTrees"
  /\ Cardinality(DOMAIN topology_counter_) = 2
  /\ \E p \in DOMAIN parent_to_range_ :
       parent_to_range_[p][2] - parent_to_range_[p][1] >= 2

\* C2: after ProcessLoadedTrees, indexer_ is a bijection from the counted
\* rootsplit and PCSS keys onto [0, M): its keys are exactly those of the
\* two counters, no two keys share an index, every index of [0, M) is used,
\* a key has an index below R exactly when it is a rootsplit, rootsplits_
\* lists the key of index i at position i, and PrettyIndexer returns M
\* entries of which the first R are the R distinct rootsplits.
C2_IndexerBijection ==
  Built =>
    \A rootsplit_counter \in {RootsplitCounterOf(topology_counter_)} :
      \A pcss_dict \in {PCSSCounterOf(topology_counter_)} :
        \A pretty \in {PrettyIndexer} :
          LET R == Len(rootsplits_)
              M == Len(sbn_parameters_)
              keys == DOMAIN indexer_
          IN /\ keys = DOMAIN rootsplit_counter
                        \cup UNION {{p \o c : c \in DOMAIN pcss_dict[p]} :
                                    p \in DOMAIN pcss_dict}
             /\ \A k1, k2 \in keys : indexer_[k1] = indexer_[k2] => k1 = k2
             /\ {indexer_[k] : k \in keys} = 0 .. (M - 1)
             /\ \A k \in keys : indexer_[k] < R <=> k \in DOMAIN rootsplit_counter
             /\ R = Cardinality(DOMAIN rootsplit_counter)
             /\ \A i \in 1 .. R : /\ rootsplits_[i] \in keys
                                   /\ indexer_[rootsplits_[i]] = i - 1
             /\ Len(pretty) = M
             /\ \A i \in 1 .. R : pretty[i] = BitsetToString(rootsplits_[i])
             /\ Cardinality({pretty[i] : i \in 1 .. R}) = R
             /\ {pretty[i] : i \in 1 .. R}
                  = {BitsetToString(k) : k \in DOMAIN rootsplit_counter}

\* The maps of two different unrooted trees: more rootsplits than one tree
\* has edges, and PCSS keys after them.
C2_Witness ==
  /\ Built
  /\ Len(rootsplits_) > 2 * NumTaxa - 3
  /\ \E k \in DOMAIN indexer_ : indexer_[k] >= Len(rootsplits_)
  /\ Len(PrettyIndexer) > Len(rootsplits_)

\* C3: PCSSPreOrder never emits one (parent, child) pair twice for one
\* topology and no two nodes below the root have one minorized split, so
\* the counters of one topology of multiplicity c hold exactly c for each of
\* its rootsplits and pairs; and in the counters of a whole TopologyCounter
\* the count of a key is the sum of the multiplicities of the topologies
\* that have it.
C3_CountsAreMultiplicities ==
  Built =>
    \A rootsplit_counter \in {RootsplitCounterOf(topology_counter_)} :
      \A pcss_dict \in {PCSSCounterOf(topology_counter_)} :
        \A splits \in {[t \in DOMAIN topology_counter_ |-> SplitsOf(t)]} :
          \A pairs \in {[t \in DOMAIN topology_counter_ |-> PairsOf(t)]} :
            /\ \A t \in DOMAIN topology_counter_ :
                 \A c \in {topology_counter_[t]} :
                   \A one_r \in {RootsplitCounterOf(t :> c)} :
                     \A one_p \in {PCSSCounterOf(t :> c)} :
                       /\ NoRepeat(splits[t])
                       /\ NoRepeat(pairs[t])
                       /\ DOMAIN one_r = Range(splits[t])
                       /\ \A k \in DOMAIN one_r : one_r[k] = c
                       /\ PairsIn(one_p) = Range(pairs[t])
                       /\ \A pc \in PairsIn(one_p) : one_p[pc[1]][pc[2]] = c
            /\ DOMAIN rootsplit_counter
                 = UNION {Range(splits[t]) : t \in DOMAIN topology_counter_}
            /\ \A k \in DOMAIN rootsplit_counter :
                 rootsplit_counter[k]
                   = SumOver(topology_counter_,
                             {t \in DOMAIN topology_counter_ : k \in Range(splits[t])})
            /\ PairsIn(pcss_dict)
                 = UNION {Range(pairs[t]) : t \in DOMAIN topology_counter_}
            /\ \A pc \in PairsIn(pcss_dict) :
                 pcss_dict[pc[1]][pc[2]]
                   = SumOver(topology_counter_,
                             {t \in DOMAIN topology_counter_ : pc \in Range(pairs[t])})

\* A topology of multiplicity two was counted, and SplitCounters reports
\* two for one of its rootsplits.
C3_Witness ==
  /\ Built
  /\ \E t \in DOMAIN topology_counter_ : topology_counter_[t] = 2
  /\ last.op = "SplitCounters"
  /\ \E str \in DOMAIN result.rootsplits : result.rootsplits[str] = 2

\* C4: for every topology of the processed set, every rootsplit and PCSS
\* key of every rooted view is a key of indexer_, so its indexer
\* representation against indexer_ holds no index M; and
\* MakeIndexerRepresentations on the processed collection returns none.
C4_NoOutOfSample ==
  Built =>
    /\ \A t \in DOMAIN topology_counter_ :
         /\ \A k \in 0 .. (t.index - 1) :
              Range(RootedKeysOf(RootedAt(t, k, <<>>))) \subseteq DOMAIN indexer_
         /\ InSample(IndexerRepresentationOf(indexer_, t, Len(sbn_parameters_)),
                     Len(sbn_parameters_))
    /\ last.op = "MakeIndexerRepresentations" =>
         \A i \in DOMAIN result : InSample(result[i], Len(sbn_parameters_))

\* MakeIndexerRepresentations has returned the representations of two
\* different processed topologies.
C4_Witness ==
  /\ Built
  /\ last.op = "MakeIndexerRepresentations"
  /\ Len(result) = 2
  /\ result[1] # result[2]

\* C5 (as amended): the indexer representation of an unrooted topology with
\* n leaves has exactly 2n-3 rooted views, the k-th being the rooting on the
\* edge above node k; each view is the index of that rooting's rootsplit
\* and n-2 PCSS indices, pairwise distinct except that the out-of-sample
\* index M may occur more than once (it does not occur at all for a
\* processed topology); the rooted representation of a rooted binary
\* topology is exactly one such view.
C5_RootedViews ==
  last.op = "MakeIndexerRepresentations" =>
    \A i \in DOMAIN result :
      /\ ViewsOf(tree_collection_[i], result[i], Len(sbn_parameters_), FALSE)
      /\ Built => ViewsOf(tree_collection_[i], result[i], Len(sbn_parameters_), TRUE)

\* C5 as stated: the n-2 PCSS indices of every view are pairwise distinct.
C5_Original ==
  last.op = "MakeIndexerRepresentations" =>
    \A i \in DOMAIN result :
      ViewsOf(tree_collection_[i], result[i], Len(sbn_parameters_), TRUE)

\* MakeIndexerRepresentations has returned views of a processed topology
\* whose PCSS indices are pairwise distinct parameters.
C5_Witness ==
  /\ last.op = "MakeIndexerRepresentations"
  /\ Built
  /\ \E i \in DOMAIN result :
       \E k \in DOMAIN result[i] :
         /\ Len(result[i][k]) = NumTaxa - 1
         /\ \A a \in 2 .. Len(result[i][k]) :
              /\ Len(rootsplits_) <= result[i][k][a]
              /\ result[i][k][a] < Len(sbn_parameters_)

\* C6: the rootsplit keys and the (parent, child) PCSS keys that
\* RootsplitCounterOf and PCSSCounterOf produce for a topology are those
\* they produce for the same unrooted tree with a neighbouring internal
\* node as the trifurcating root (and so, step by step, with any), and a
\* topology processed alone leaves exactly these keys in the maps.
C6_RootIndependent ==
  Built =>
    \A t \in DOMAIN topology_counter_ :
      \A rootsplit_counter \in {RootsplitCounterOf(t :> 1)} :
        \A pcss_dict \in {PCSSCounterOf(t :> 1)} :
          \A i \in 1 .. Len(t.children) :
            ~IsLeaf(t.children[i]) =>
              \A u \in {RerootAt(t, i)} :
                /\ ~NodeEq(u, t)
                /\ DOMAIN RootsplitCounterOf(u :> 1) = DOMAIN rootsplit_counter
                /\ PairsIn(PCSSCounterOf(u :> 1)) = PairsIn(pcss_dict)
                /\ Cardinality(DOMAIN topology_counter_) = 1 =>
                     /\ Range(rootsplits_) = DOMAIN RootsplitCounterOf(u :> 1)
                     /\ DOMAIN parent_to_range_ = DOMAIN PCSSCounterOf(u :> 1)

\* A topology was processed alone that has two internal nodes next to its
\* root, each of which can be made the root.
C6_Witness ==
  /\ Built
  /\ \E t \in DOMAIN topology_counter_ :
       /\ DOMAIN topology_counter_ = {t}
       /\ Cardinality({i \in 1 .. 3 : ~IsLeaf(t.children[i])}) = 2

\* C7: minorizing a clade and minorizing its complement give the same
\* bitset, for every bipartition of the taxa and for the clade of every node
\* the rootsplit counter visits, and that bitset is the key rootsplits_
\* holds; the child key of every call of PCSSPreOrder is the same with the
\* two children exchanged, and indexer_ holds parent + that child.
C7_OrientationIndependent ==
  Built =>
    \A t \in DOMAIN topology_counter_ :
      \A tag_to_bitset \in {TagBitsetMapOf(t)} :
        /\ \A S \in (SUBSET (0 .. (LeafCount(t) - 1))) \ {{}, 0 .. (LeafCount(t) - 1)} :
             Minorize(BitsetOf(S, LeafCount(t)))
               = Minorize(BitsetOf((0 .. (LeafCount(t) - 1)) \ S, LeafCount(t)))
        /\ \A x \in Range(PreOrderAll(t.children)) :
             /\ Minorize(tag_to_bitset[x.tag]) = Minorize(Flip(tag_to_bitset[x.tag]))
             /\ Minorize(Flip(tag_to_bitset[x.tag])) \in Range(rootsplits_)
        /\ \A call \in Range(PCSSPreOrder(t)) :
             /\ PCSSChildOf(call, tag_to_bitset)
                  = PCSSChildOf(Swapped(call), tag_to_bitset)
             /\ (PCSSParentOf(call, tag_to_bitset, LeafCount(t))
                  \o PCSSChildOf(Swapped(call), tag_to_bitset)) \in DOMAIN indexer_

\* A processed topology has a node whose clade holds taxon 0, so that
\* Minorize flips it, and a call whose child key is that of its second child.
C7_Witness ==
  /\ Built
  /\ \E t \in DOMAIN topology_counter_ :
       /\ \E x \in Range(PreOrderAll(t.children)) :
            /\ ~IsLeaf(x)
            /\ TagBitsetMapOf(t)[x.tag][1] = 1
       /\ \E call \in Range(PCSSPreOrder(t)) :
            PCSSChildOf(call, TagBitsetMapOf(t))
              = IF call.child1_direction
                THEN Flip(TagBitsetMapOf(t)[call.child1.tag])
                ELSE TagBitsetMapOf(t)[call.child1.tag]

\* C8: the topology counter of the collection parsed from a file maps
\* each structurally distinct topology of the file to the number of trees
\* that have it, whatever the order their children are written in: its
\* keys differ in their clades, every tree of the file has its key, every
\* count is positive and is the number of trees with the key's clades, and
\* the counts sum to the number of trees.
C8_TopologyCounter ==
  Built =>
    /\ \A t \in DOMAIN topology_counter_ :
         /\ topology_counter_[t] >= 1
         /\ topology_counter_[t]
              = Cardinality({i \in DOMAIN newick : NewickClades(newick[i]) = CladesOf(t)})
    /\ \A t, u \in DOMAIN topology_counter_ : t # u => CladesOf(t) # CladesOf(u)
    /\ \A i \in DOMAIN newick :
         \E t \in DOMAIN topology_counter_ : NewickClades(newick[i]) = CladesOf(t)
    /\ SumOver(topology_counter_, DOMAIN topology_counter_) = Len(tree_collection_)
    /\ Len(tree_collection_) = Len(newick)

\* A file listed one topology twice, with the children in different
\* orders, and the counter holds it once with count two.
C8_Witness ==
  /\ Built
  /\ Len(newick) = 2
  /\ newick[1] # newick[2]
  /\ \E t \in DOMAIN topology_counter_ :
       DOMAIN topology_counter_ = {t} /\ topology_counter_[t] = 2

\* C9: after any sequence of loads, trainings, samplings and
\* ProcessLoadedTrees calls, a ProcessLoadedTrees call succeeds and leaves
\* topology_counter_, indexer_, rootsplits_, index_to_child_,
\* parent_to_range_ and sbn_parameters_ exactly as a new instance builds
\* them from the current collection (so calling it twice gives the same
\* maps): the keys are those of the current collection's counters and
\* every parameter is 1.
C9_ProcessStartsAfresh ==
  last.op = "ProcessLoadedTrees" =>
    /\ ~last.failed
    /\ SBNMaps = MapsOf(tree_collection_)
    /\ \A counter \in {TopologyCounter(tree_collection_)} :
         /\ topology_counter_ = counter
         /\ Range(rootsplits_) = DOMAIN RootsplitCounterOf(counter)
         /\ DOMAIN parent_to_range_ = DOMAIN PCSSCounterOf(counter)
         /\ DOMAIN indexer_
              = DOMAIN RootsplitCounterOf(counter)
                \cup {pc[1] \o pc[2] : pc \in PairsIn(PCSSCounterOf(counter))}
    /\ Len(rootsplits_) = Cardinality(Range(rootsplits_))
    /\ DOMAIN index_to_child_ = Len(rootsplits_) .. (Len(sbn_parameters_) - 1)
    /\ Len(sbn_parameters_) = Cardinality(DOMAIN indexer_)
    /\ \A i \in DOMAIN sbn_parameters_ : sbn_parameters_[i] = 1

\* ProcessLoadedTrees was called on an instance that already had maps and
\* has built the maps of a collection of two trees.
C9_Witness ==
  /\ last.op = "ProcessLoadedTrees"
  /\ last.had_maps
  /\ ~last.failed
  /\ Len(tree_collection_) = 2
  /\ Cardinality(DOMAIN topology_counter_) = 2

C11_Original ==
  (last.op = "ProcessLoadedTrees" /\ tree_collection_ = <<>>) => last.failed

\* C18: right after a ProcessLoadedTrees call that returned, sbn_parameters_
\* has R + (number of (parent, child) pairs of the PCSS counter) entries, R
\* the number of rootsplits of the rootsplit counter, and every entry is 1.
C18_NeutralParameters ==
  (last.op = "ProcessLoadedTrees" /\ ~last.failed) =>
    \A counter \in {TopologyCounter(tree_collection_)} :
      /\ Len(sbn_parameters_)
           = Cardinality(DOMAIN RootsplitCounterOf(counter))
             + Cardinality(PairsIn(PCSSCounterOf(counter)))
      /\ \A i \in 1 .. Len(sbn_parameters_) : sbn_parameters_[i] = 1

\* ProcessLoadedTrees has returned on two different topologies, with more
\* PCSS entries in the vector than rootsplits.
C18_Witness ==
  /\ last.op = "ProcessLoadedTrees"
  /\ ~last.failed
  /\ Cardinality(DOMAIN topology_counter_) = 2
  /\ Len(sbn_parameters_) > 2 * Len(rootsplits_)
  /\ sbn_parameters_[Len(sbn_parameters_)] = 1

\* C12 as stated: a SampleTopology, SampleTrees or TrainSimpleAverage call
\* made while ProcessLoadedTrees has not built the maps ends in an error.
C12_Original ==
  (/\ last.op \in {"SampleTopology", "SampleTrees", "TrainSimpleAverage"}
   /\ ~last.had_maps)
  => last.failed

\* C13: a SampleIndex(range) call fails exactly when start >= end or
\* end > the length of sbn_parameters_; a call that returns gives an index
\* r with start <= r < end, and every index of a valid range can be drawn.
C13_SampleIndexInRange ==
  /\ last.op = "SampleIndex" =>
       /\ last.failed <=> (\/ result.range[1] >= result.range[2]
                           \/ result.range[2] > Len(sbn_parameters_))
       /\ ~last.failed => InRange(result.index, result.range)
  /\ \A range \in SampleRanges :
       ValidRange(range) => SampleIndex(range) = range[1] .. (range[2] - 1)

\* SampleIndex has returned the second index of a parent's block, after
\* training.
C13_Witness ==
  /\ last.op = "SampleIndex"
  /\ ~last.failed
  /\ result.range[1] >= Len(rootsplits_)
  /\ Len(rootsplits_) > 0
  /\ result.index = result.range[1] + 1
  /\ \E i \in DOMAIN sbn_parameters_ : sbn_parameters_[i] # 1

\* The leaves of a topology, in pre-order.
LeavesOf(t) == SelectSeq(PreOrder(t), IsLeaf)

\* C14: with the maps built from topologies on n taxa, SampleTopology
\* returns (it neither throws nor recurses for ever: every child subsplit
\* stored for a parent splits the parent's second chunk into two non-empty
\* clades) a tree with n leaves, the taxa 0 .. n-1 each once, whose nodes
\* below the root are leaves or have two children, and whose root has two
\* children when rooted and three when not.
C14_SampleTopologyShape ==
  /\ (last.op = "SampleTopology" /\ last.had_maps) =>
       /\ ~last.failed
       /\ \A n \in {Len(taxon_names_)} :
            /\ Len(LeavesOf(result.topology)) = n
            /\ {MaxLeafID(x) : x \in Range(LeavesOf(result.topology))} = 0 .. (n - 1)
       /\ Len(result.topology.children) = IF result.rooted THEN 2 ELSE 3
       /\ \A x \in Range(PreOrderAll(result.topology.children)) :
            IsLeaf(x) \/ Len(x.children) = 2
  /\ \A parent \in DOMAIN parent_to_range_ :
       \A i \in parent_to_range_[parent][1] .. (parent_to_range_[parent][2] - 1) :
         /\ i \in DOMAIN index_to_child_
         /\ Count(SplitChunk(index_to_child_[i], 0)) >= 1
         /\ Count(SplitChunk(index_to_child_[i], 1)) >= 1
         /\ BitOr(SplitChunk(index_to_child_[i], 0), SplitChunk(index_to_child_[i], 1))
              = SplitChunk(parent, 1)

\* SampleTopology(false) has returned a trifurcating tree from maps built on
\* two topologies.
C14_Witness ==
  /\ last.op = "SampleTopology"
  /\ last.had_maps
  /\ ~last.failed
  /\ ~result.rooted
  /\ Len(result.topology.children) = 3
  /\ Cardinality(DOMAIN topology_counter_) = 2

\* exp(d) = num / den, for an integer d and positive integers num and den:
\* exp(d) is irrational unless d = 0.
ExpIs(d, num, den) == d = 0 /\ num = den

\* The blocks SampleTopology draws from: the rootsplits and every parent's
\* children.
Blocks ==
  {<<0, Len(rootsplits_)>>}
  \cup {parent_to_range_[parent] : parent \in DOMAIN parent_to_range_}

ViewKeysOf(topology) ==
  Tup([k \in 1 .. topology.index |-> RootedKeysOf(RootedAt(topology, k - 1, <<>>))])

\* C15: the out-of-sample index is M, the length of sbn_parameters_.  Every
\* index of the indexer is below M; in what MakeIndexerRepresentations
\* returns, the entry of a key of the indexer is the index of that key and
\* the entry of a key the indexer does not hold is M; and the
\* representations that TrainSimpleAverage reads, those of the topologies
\* of the counter under the same sentinel, never hold M.
C15_SentinelIsParameterCount ==
  \A M \in {Len(sbn_parameters_)} :
    /\ \A key \in DOMAIN indexer_ : indexer_[key] < M
    /\ last.op = "MakeIndexerRepresentations" =>
         /\ Len(result) = Len(tree_collection_)
         /\ \A i \in DOMAIN result :
              \A keys \in {ViewKeysOf(tree_collection_[i])} :
                /\ Len(result[i]) = Len(keys)
                /\ \A k \in DOMAIN keys :
                     /\ Len(result[i][k]) = Len(keys[k])
                     /\ \A j \in DOMAIN keys[k] :
                          result[i][k][j]
                            = IF keys[k][j] \in DOMAIN indexer_
                              THEN indexer_[keys[k][j]] ELSE M
    /\ last.op = "TrainSimpleAverage" =>
         \A topology \in DOMAIN topology_counter_ :
           InSample(IndexerRepresentationOf(indexer_, topology, M), M)

\* C15 witness: maps exist, the collection was replaced after they were
\* built, and one returned view holds both the sentinel and an index of
\* the indexer.
C15_Witness ==
  /\ last.op = "MakeIndexerRepresentations"
  /\ indexer_ # <<>>
  /\ \E i \in DOMAIN result : \E k \in DOMAIN result[i] :
       /\ \E j \in DOMAIN result[i][k] : result[i][k][j] = Len(sbn_parameters_)
       /\ \E j \in DOMAIN result[i][k] : result[i][k][j] < Len(sbn_parameters_)

\* C16: CalculateSBNProbabilities does not fail on a key the indexer does
\* not hold.  It returns one probability per tree of the collection; a
\* rooting of a tree contributes a non-zero term exactly when all its keys
\* are keys of the indexer, the term being the product of the normalized
\* parameters at their indices, and a rooting with a missing key
\* contributes nothing, so that a tree all of whose rootings miss a key has
\* probability zero.
C16_MissingKeyContributesZero ==
  last.op = "CalculateSBNProbabilities" =>
    /\ ~last.failed
    /\ Len(result) = Len(tree_collection_)
    /\ \A i \in DOMAIN result :
         \A keys \in {ViewKeysOf(tree_collection_[i])} :
           /\ Len(result[i])
                = Cardinality({k \in DOMAIN keys :
                                 \A j \in DOMAIN keys[k] :
                                   keys[k][j] \in DOMAIN indexer_})
           /\ \A k \in DOMAIN keys :
                (\A j \in DOMAIN keys[k] : keys[k][j] \in DOMAIN indexer_)
                  => \E term \in Range(result[i]) :
                       /\ Len(term) = Len(keys[k])
                       /\ \A j \in DOMAIN keys[k] :
                            /\ term[j].log = sbn_parameters_[indexer_[keys[k][j]] + 1]
                            /\ \E x \in DOMAIN term[j].block :
                                 term[j].block[x] = term[j].log
           /\ (\A k \in DOMAIN keys : \E j \in DOMAIN keys[k] :
                 keys[k][j] \notin DOMAIN indexer_)
                => result[i] = <<>>

\* C16 witness: maps exist and the call returned, for two trees of the
\* collection, probability zero for one (each of its rootings misses a
\* key) and a non-zero probability for the other.
C16_Witness ==
  /\ last.op = "CalculateSBNProbabilities"
  /\ ~last.failed
  /\ indexer_ # <<>>
  /\ \E i \in DOMAIN result : result[i] = <<>>
  /\ \E i \in DOMAIN result : result[i] # <<>>

\* The improvement of iteration k of a score history over iteration k - 1.
Improvement(score_history, k) == score_history[k] - score_history[k - 1]

\* C19: TrainExpectationMaximization(alpha, max_iter, score_epsilon) always
\* terminates.  While it runs and when it has returned, it has done at most
\* max_iter iterations and no iteration before the last one had a score
\* improvement below score_epsilon; when it has returned, it has done
\* max_iter iterations or the improvement of its last iteration is below
\* score_epsilon; and every run returns.
C19_EMTerminates ==
  /\ [](last.op = "TrainExpectationMaximization" =>
          /\ Len(result.run.score_history) <= result.max_iter
          /\ \A k \in 2 .. (Len(result.run.score_history) - 1) :
               Improvement(result.run.score_history, k) >= result.score_epsilon
          /\ status = "running" =>
               \/ Len(result.run.score_history) = result.max_iter
               \/ /\ Len(result.run.score_history) >= 2
                  /\ Improvement(result.run.score_history,
                                 Len(result.run.score_history))
                       < result.score_epsilon)
  /\ (status = "training" ~> status = "running")

\* C19 witness: a run that was given three iterations has returned after
\* two, the second having improved the score by less than score_epsilon.
C19_Witness ==
  /\ last.op = "TrainExpectationMaximization"
  /\ status = "running"
  /\ indexer_ # <<>>
  /\ result.max_iter = 3
  /\ Len(result.run.score_history) = 2
  /\ Improvement(result.run.score_history, 2) < result.score_epsilon

\* The operations that only read the maps and the parameter vector.
Readers ==
  {"SampleIndex", "SampleTopology", "CalculateSBNProbabilities",
   "MakeIndexerRepresentations", "PrettyIndexer", "StringReversedIndexer",
   "GetIndexers"}

\* C21: a step of SampleIndex, SampleTopology, CalculateSBNProbabilities,
\* MakeIndexerRepresentations, PrettyIndexer, StringReversedIndexer or
\* GetIndexers leaves sbn_parameters_, indexer_, rootsplits_,
\* index_to_child_ and parent_to_range_ as they were.
C21_ReadersLeaveMaps ==
  [][last'.op \in Readers =>
       UNCHANGED <<sbn_parameters_, indexer_, rootsplits_, index_to_child_,
                   parent_to_range_>>]_vars

\* C21 witness: CalculateSBNProbabilities has returned non-zero
\* probabilities on an instance whose parameters were trained to counts
\* that differ within a block.
C21_Witness ==
  /\ last.op = "CalculateSBNProbabilities"
  /\ last.had_maps
  /\ \E i \in DOMAIN result : result[i] # <<>>
  /\ \E i \in 1 .. Len(rootsplits_) : sbn_parameters_[i] # sbn_parameters_[1]

\* The nodes of the tree below n, each with its path from n (the positions
\* of the children taken on the way down).
RECURSIVE PathsOf(_, _)
PathsOf(n, path) ==
  {<<path, n>>}
  \cup UNION {PathsOf(n.children[i], Append(path, i)) : i \in DOMAIN n.children}

\* The leaves below n have pairwise distinct ids.
DistinctLeaves(n) ==
  LeafCount(n) = Cardinality({MaxLeafID(pn[2]) : pn \in {x \in PathsOf(n, <<>>) : IsLeaf(x[2])}})

\* Path a is a proper prefix of path b: the node at b is a descendant of the
\* node at a.
Above(a, b) == Len(a) < Len(b) /\ SubSeq(b, 1, Len(a)) = a

\* Path a is to the left of path b.
LeftOf(a, b) ==
  \E k \in 1 .. Len(a) :
    /\ k <= Len(b)
    /\ SubSeq(a, 1, k - 1) = SubSeq(b, 1, k - 1)
    /\ a[k] < b[k]

\* The position of the node at a path in a sequence of visited nodes.
VisitOf(visited, paths, path) ==
  CHOOSE k \in DOMAIN visited : <<path, visited[k]>> \in paths

\* C22: on a topology, each of PreOrder, PostOrder and LevelOrder calls f
\* exactly once per node.  PreOrder visits a node before its descendants
\* and the subtree of a child before the subtrees of the children stored
\* after it; PostOrder visits a node after its descendants; LevelOrder
\* visits the nodes by non-decreasing depth and those of one depth from
\* left to right.
C22_TraversalOrders ==
  (last.op \in {"PreOrder", "PostOrder", "LevelOrder"} /\ DistinctLeaves(result.node)) =>
    \A paths \in {PathsOf(result.node, <<>>)} :
      /\ Len(result.visited) = Cardinality(paths)
      /\ Range(result.visited) = {pn[2] : pn \in paths}
      /\ \A a, b \in {pn[1] : pn \in paths} :
           \A va \in {VisitOf(result.visited, paths, a)} :
             \A vb \in {VisitOf(result.visited, paths, b)} :
               /\ (last.op = "PreOrder" /\ Above(a, b)) => va < vb
               /\ (last.op = "PreOrder" /\ LeftOf(a, b)) => va < vb
               /\ (last.op = "PostOrder" /\ Above(a, b)) => vb < va
               /\ (last.op = "LevelOrder" /\ Len(a) < Len(b)) => va < vb
               /\ (last.op = "LevelOrder" /\ Len(a) = Len(b) /\ LeftOf(a, b)) => va < vb

\* C22 witness: LevelOrder was called on a tree with distinct leaves that
\* has nodes of depth two below two different children of the root, so
\* that level order, pre-order and post-order all differ.
C22_Witness ==
  /\ last.op = "LevelOrder"
  /\ DistinctLeaves(result.node)
  /\ Len(result.node.children) >= 2
  /\ \A i \in 1 .. 2 : ~IsLeaf(result.node.children[i])
  /\ result.visited # PreOrder(result.node)

\* The leaf ids below n, one per leaf.
LeafIdsBelow(n) ==
  {<<pn[1], MaxLeafID(pn[2])>> : pn \in {x \in PathsOf(n, <<>>) : IsLeaf(x[2])}}

\* C26: every internal node that exists has a non-empty child list stored
\* in strictly increasing order of the children's max leaf id, and its tag
\* is (largest leaf id below it, number of leaves below it); a Join aborts
\* exactly when it is given no children or two children with the same max
\* leaf id, and otherwise makes the node of the children it was given,
\* whatever their order.
C26_NodeInvariant ==
  /\ \A i \in DOMAIN tree_collection_ :
       \A pn \in PathsOf(tree_collection_[i], <<>>) :
         \A n \in {pn[2]} :
           ~IsLeaf(n) =>
             /\ Len(n.children) >= 1
             /\ \A j \in 1 .. (Len(n.children) - 1) :
                  MaxLeafID(n.children[j]) < MaxLeafID(n.children[j + 1])
             /\ \A ids \in {LeafIdsBelow(n)} :
                  /\ LeafCount(n) = Cardinality(ids)
                  /\ \E x \in ids : MaxLeafID(n) = x[2]
                  /\ \A x \in ids : x[2] <= MaxLeafID(n)
  /\ last.op = "Join" =>
       /\ last.failed
            <=> \/ result.children = <<>>
                \/ \E j, k \in DOMAIN result.children :
                     /\ j < k
                     /\ MaxLeafID(result.children[j]) = MaxLeafID(result.children[k])
       /\ last.failed => status = "aborted"
       /\ ~last.failed =>
            /\ tree_collection_[Len(tree_collection_)] = result.node
            /\ Range(result.node.children) = Range(result.children)
            /\ Len(result.node.children) = Len(result.children)

\* C26 witness: a Join was given three children in decreasing order of
\* their max leaf ids and made a node.
C26_Witness ==
  /\ last.op = "Join"
  /\ ~last.failed
  /\ Len(result.children) = 3
  /\ \A j \in 1 .. 2 :
       MaxLeafID(result.children[j]) > MaxLeafID(result.children[j + 1])
  /\ result.node.children # result.children

\* The paths of the internal nodes among the nodes with their paths.
InternalPaths(paths) == {pn[1] : pn \in {x \in paths : ~IsLeaf(x[2])}}

\* What C27 says of the indices below the root, for the nodes of a
\* reindexed tree t with their paths: a leaf has its leaf id, an internal
\* node has 1 + MaxLeafID(t) plus the number of internal nodes that come
\* before it in post-order (those below it and those to its left), a child
\* has a smaller index than its parent, and the map has one entry per node,
\* the index of the node of that tag.
IndexedInPostOrder(t, paths, tag_index_map) ==
  /\ \A pn \in paths :
       /\ IsLeaf(pn[2]) => pn[2].index = MaxLeafID(pn[2])
       /\ ~IsLeaf(pn[2]) =>
            pn[2].index
              = 1 + MaxLeafID(t)
                + Cardinality({b \in InternalPaths(paths) :
                                 Above(pn[1], b) \/ LeftOf(b, pn[1])})
       /\ \A j \in DOMAIN pn[2].children : pn[2].children[j].index < pn[2].index
       /\ pn[2].tag \in DOMAIN tag_index_map
       /\ tag_index_map[pn[2].tag] = pn[2].index
  /\ Cardinality(DOMAIN tag_index_map) = Cardinality(paths)

IndexedTopology(n) ==
  /\ {x[2] : x \in LeafIdsBelow(n)} = 0 .. (LeafCount(n) - 1)
  /\ ~ReindexAborts(n)
  /\ Reindex(n) = n

\* C28: for a topology t (leaf ids 0 .. L-1) indexed by Reindex,
\* IndexVector(t) has one entry per non-root node, the parent's index at
\* the slot of the node's index, and OfIndexVector of it is t, with the
\* same indices; IndexVector fails when the index of some child is not
\* smaller than the root's index.
C28_IndexVectorRoundTrip ==
  /\ last.op = "IndexVector" =>
       \A paths \in {PathsOf(result.node, <<>>)} :
         /\ (\E pn \in paths : \E j \in DOMAIN pn[2].children :
               \/ pn[2].children[j].index = NoIndex
               \/ pn[2].children[j].index >= result.node.index)
              => last.failed
         /\ IndexedTopology(result.node) =>
              /\ ~last.failed
              /\ Len(result.indices) = Cardinality(paths) - 1
              /\ \A pn \in paths : \A j \in DOMAIN pn[2].children :
                   result.indices[pn[2].children[j].index + 1] = pn[2].index
  /\ (last.op = "OfIndexVector" /\ result.node # Thrown
      /\ IndexedTopology(result.node)) =>
       /\ ~last.failed
       /\ result.topology = result.node

\* C28 witness: OfIndexVector has returned on the vector that IndexVector
\* gave for a reindexed tree with leaves 0, 1, 2 and two internal nodes.
C28_Witness ==
  /\ last.op = "OfIndexVector"
  /\ result.node # Thrown
  /\ IndexedTopology(result.node)
  /\ LeafCount(result.node) = 3
  /\ Len(result.indices) = 4
  /\ result.topology.index = 4

\* C23: Detrifurcate on a tree whose root is (s0, s1, s2) returns a new tree
\* whose topology is (s0, (s1, s2)), and the tree it was called on is, after
\* the call, the topology it was before and has the Newick string it had.
C23_DetrifurcateReturnsNewTree ==
  last.op = "Detrifurcate" =>
    /\ Len(result.tree.children) = 2
    /\ result.tree.children[1] = result.original.children[1]
    /\ result.tree.children[2].children
         = <<result.original.children[2], result.original.children[3]>>
    /\ tree_collection_[result.at] = result.original
    /\ NewickString(tree_collection_[result.at]) = result.newick

\* Detrifurcate was called on (0,1,(2,3)) and returned (0,(1,(2,3))), as in
\* the test of tree.hpp.
C23_Witness ==
  /\ last.op = "Detrifurcate"
  /\ result.newick = <<"(", "0", ",", "1", ",", "(", "2", ",", "3", ")", ")", ";">>
  /\ NodeEq(result.tree,
            Join(<<Leaf(0), Join(<<Leaf(1), Join(<<Leaf(2), Leaf(3)>>)>>)>>))

\* C24: in every call order, PrepareForPhyloLikelihood fails, making no
\* engine, when no alignment or no tree is loaded; LogLikelihoods,
\* BranchGradients and GetPhyloModelParamBlockMap fail with "Engine not
\* available" in every state where no engine has been made; and an engine
\* is only ever made by a PrepareForPhyloLikelihood call.
EngineCalls == {"LogLikelihoods", "BranchGradients", "GetPhyloModelParamBlockMap"}
C24_LikelihoodPreconditions ==
  [][/\ (last'.op = "PrepareForPhyloLikelihood"
          /\ (alignment_ = 0 \/ tree_collection_ = <<>>)) =>
           (last'.failed /\ engine_' = engine_)
     /\ (last'.op \in EngineCalls /\ engine_ = "nullptr") =>
           (last'.failed /\ result' = [what |-> "Engine not available"])
     /\ engine_' # engine_ =>
           (last'.op = "PrepareForPhyloLikelihood" /\ engine_ = "nullptr")]_vars

\* LogLikelihoods has failed on an instance that holds an alignment and
\* trees but no engine.
C24_Witness ==
  /\ last.op = "LogLikelihoods" /\ last.failed
  /\ engine_ = "nullptr"
  /\ alignment_ # 0 /\ tree_collection_ # <<>>

\* C25: PCSSCounterOf aborts, returning no dictionary, when a topology it is
\* given has a root without exactly three children: it returns PCSS counts
\* only when every topology has three children at the root.
C25_PCSSCounterAbortsOnBifurcation ==
  last.op = "SplitCounters" =>
    IF \E i \in DOMAIN tree_collection_ : Len(tree_collection_[i].children) # 3
    THEN status = "aborted" /\ last.failed /\ result = <<>>
    ELSE status = "running" /\ ~last.failed

\* SplitCounters has aborted on a collection with a rooted tree.
C25_Witness ==
  /\ last.op = "SplitCounters" /\ status = "aborted"
  /\ \E i \in DOMAIN tree_collection_ : Len(tree_collection_[i].children) = 2

\* The subsplit, when its second clade is not a single taxon, is a key of
\* parent_to_range_ with a non-empty range of indices in use.
CanLookUp(subsplit) ==
  Count(SplitChunk(subsplit, 1)) > 1 =>
    /\ subsplit \in DOMAIN parent_to_range_
    /\ ValidRange(parent_to_range_[subsplit])

\* C30: on maps built by ProcessLoadedTrees no lookup of sampling misses:
\* the subsplit of every rootsplit and every stored child subsplit, either
\* way round, is a key of parent_to_range_ unless the clade looked up is a
\* single taxon; every index of a parent's range is a key of
\* index_to_child_, whose two clades partition the parent's second clade;
\* and every topology SampleTopology(true) returns has a rooted indexer
\* representation without the out-of-sample index.
C30_NoLookupMisses ==
  /\ (status = "running" /\ indexer_ # <<>>) =>
       /\ \A i \in DOMAIN rootsplits_ :
            /\ CanLookUp(rootsplits_[i] \o Flip(rootsplits_[i]))
            /\ CanLookUp(Flip(rootsplits_[i]) \o rootsplits_[i])
       /\ \A i \in DOMAIN index_to_child_ :
            /\ CanLookUp(index_to_child_[i])
            /\ CanLookUp(RotateSubsplit(index_to_child_[i]))
       /\ \A parent \in DOMAIN parent_to_range_ :
            \A i \in parent_to_range_[parent][1] .. (parent_to_range_[parent][2] - 1) :
              /\ i \in DOMAIN index_to_child_
              /\ BitOr(SplitChunk(index_to_child_[i], 0),
                       SplitChunk(index_to_child_[i], 1)) = SplitChunk(parent, 1)
              /\ Count(BitAnd(SplitChunk(index_to_child_[i], 0),
                              SplitChunk(index_to_child_[i], 1))) = 0
              /\ Count(SplitChunk(index_to_child_[i], 0)) >= 1
              /\ Count(SplitChunk(index_to_child_[i], 1)) >= 1
  /\ (last.op = "SampleTopology" /\ last.had_maps /\ result.rooted) =>
       /\ result.topology # Thrown
       /\ InSample(<<RootedIndexerRepresentationOf(indexer_, result.topology,
                                                   Len(sbn_parameters_))>>,
                   Len(sbn_parameters_))

\* SampleTopology(true) has returned, from the maps of two trees, a rooted
\* topology with two taxa on either side of the root.
C30_Witness ==
  /\ last.op = "SampleTopology" /\ last.had_maps /\ result.rooted
  /\ result.topology # Thrown
  /\ Len(tree_collection_) = 2
  /\ Len(result.topology.children[1].children) = 2
  /\ Len(result.topology.children[2].children) = 2

============================================================================
